---- MODULE Spec2Model ----
(***************************************************************************)
(* State-machine model of the excel_agent query pipeline of qishi_beta:    *)
(*   IntentParser.parse, RAGIndexer.build_index / RAGRetriever.search,     *)
(*   QueryRewriter.rewrite, CodeGenerator.generate, the column extractors  *)
(*   and LineageTracker.merge_lineage, the upload handler rebuilding the   *)
(*   index while a retriever loads it, and the event stream of             *)
(*   query_stream_generator.                                               *)
(*                                                                         *)
(* Text is modelled as a sequence of characters.  An ASCII character is a  *)
(* one-letter string; a CJK character is the string "uXXXX" of its code    *)
(* point, so that substring tests, lower-casing and digit scanning act on  *)
(* characters as the Python code does.                                     *)
(***************************************************************************)
EXTENDS Integers, Sequences, FiniteSets, TLC

VARIABLES
    lin_pc,        \* lineage call: "call" before merge_lineage, "done" after
    lin_args,      \* arguments of the merge_lineage call
    lineage,       \* the dict merge_lineage returned
    par_calls,     \* the parse calls a client makes, in order: [question, parser]
    par_log,       \* what each call made so far returned: [raised, intent]
    par_defaults,  \* the default values held by the Intent class
    kb_files,      \* the knowledge-base directory: the four index files
    rag_retriever, \* the module-level singleton _rag_retriever of deps.py
    ret_raised,    \* the exception get_rag_retriever let escape, "none" if none
    srch_args,     \* the summaries ingested and the arguments of the query
    srch_out,      \* the candidates FileSelector.select returned
    rew_pc,        \* rewrite call: "call" before QueryRewriter.rewrite, "done" after
    rew_args,      \* the intent parsed from the question and the candidate passed to rewrite
    rew_resolved,  \* the dict resolve_columns returned to rewrite
    plan,          \* the plan dict rewrite returned
    gen_out,       \* what code_generator.generate returned for the plan
    ext_pc,        \* lineage step of a query: "call" before the extractors run, "done" after
    ext_args,      \* the generated code, the columns of the frame and the expected columns
    ext_out,       \* what the extractors found and the lineage report made of it
    ing_pc,        \* upload_file: 0 outside build_index, else the index file it writes next
    ing_summaries, \* the summaries of the upload being indexed
    ing_processed, \* the (file, sheet) pairs saved under data/processed
    ld_pc,         \* _load_index: 0 when not running, else the index file it reads next
    ld_files,      \* what _load_index has read so far
    qs_pc,         \* query_stream_generator: the step it runs next, "end" once it returned
    qs_events,     \* the names of the SSE events it has yielded, in order
    qs_candidates  \* what selector.select returned: "unset", "empty" or "found"

lin_vars == <<lin_pc, lin_args, lineage>>
par_vars == <<par_calls, par_log, par_defaults>>
ret_vars == <<kb_files, rag_retriever, ret_raised, srch_args, srch_out>>
rew_vars == <<rew_pc, rew_args, rew_resolved, plan, gen_out>>
ext_vars == <<ext_pc, ext_args, ext_out>>
ing_vars == <<ing_pc, ing_summaries, ing_processed, ld_pc, ld_files>>
qs_vars == <<qs_pc, qs_events, qs_candidates>>
vars == <<lin_vars, par_vars, ret_vars, rew_vars, ext_vars, ing_vars, qs_vars>>

(***************************************************************************)
(* Generic helpers (Python built-ins)                                      *)
(***************************************************************************)
Min(a, b) == IF a <= b THEN a ELSE b
Max(a, b) == IF a >= b THEN a ELSE b

Range(s) == {s[i] : i \in 1..Len(s)}

\* `p in s` for two strings
IsSubstr(p, s) == \E i \in 1..(Len(s) - Len(p) + 1) : SubSeq(s, i, i + Len(p) - 1) = p

\* `[x for x in s if x in keep]`
RECURSIVE FilterIn(_, _)
FilterIn(s, keep) ==
    IF s = <<>> THEN <<>>
    ELSE (IF Head(s) \in keep THEN <<Head(s)>> ELSE <<>>) \o FilterIn(Tail(s), keep)

\* `len(set(s)) == len(s)`
\* F applied to the value of x, x being evaluated once
With(x, F(_)) == CHOOSE y \in {F(v) : v \in {x}} : TRUE

NoDup(s) == \A i, j \in 1..Len(s) : i # j => s[i] # s[j]

\* input domains: sequences of length <= n over S, with and without repeats
RECURSIVE SeqsUpTo(_, _)
SeqsUpTo(S, n) ==
    IF n = 0 THEN {<<>>}
    ELSE LET T == SeqsUpTo(S, n - 1) IN T \cup {Append(s, x) : s \in T, x \in S}

DistinctSeqs(S, n) == {s \in SeqsUpTo(S, n) : NoDup(s)}

(***************************************************************************)
(* Column names used as inputs                                             *)
(***************************************************************************)
c_diqu      == <<"u5730","u533a">>                  \* U+5730 U+533A  "region" (zh)
c_xiaoshoue == <<"u9500","u552e","u989d">>          \* U+9500 U+552E U+989D  "sales amount" (zh)
c_riqi      == <<"u65e5","u671f">>                  \* U+65E5 U+671F  "date" (zh)
c_chanpin   == <<"u4ea7","u54c1","u540d","u79f0">>  \* U+4EA7 U+54C1 U+540D U+79F0  "product name" (zh)
c_region    == <<"r","e","g","i","o","n">>
c_sales     == <<"s","a","l","e","s">>

(***************************************************************************)
(* LineageTracker.merge_lineage  (services/codegen/lineage.py)             *)
(*                                                                         *)
(* columns_map is an optional ordered dict: [given, items], items a        *)
(* sequence of [k, v] with distinct keys; `if columns_map:` is false for   *)
(* None and for the empty dict.                                            *)
(***************************************************************************)
NoMap == [given |-> FALSE, items |-> <<>>]
DictOf(items) == [given |-> TRUE, items |-> items]

Truthy(columns_map) == columns_map.given /\ columns_map.items # <<>>

\* reverse_map = {v: k for k, v in columns_map.items()}  (a later item wins)
ReverseMap(columns_map) ==
    LET it == columns_map.items
    IN  [v \in {it[i].v : i \in 1..Len(it)} |->
            it[CHOOSE i \in 1..Len(it) :
                  it[i].v = v /\ \A j \in (i + 1)..Len(it) : it[j].v # v].k]

\* a plausible slip: the used set, in discovery order, is returned unfiltered
RECURSIVE SetAsSeq(_)
SetAsSeq(S) ==
    IF S = {} THEN <<>>
    ELSE LET x == CHOOSE y \in S : TRUE IN <<x>> \o SetAsSeq(S \ {x})

FinalColumnsUnfiltered(original_columns, used_columns) == SetAsSeq(used_columns)

\* final_columns = [col for col in original_columns if col in used_columns]
FinalColumns(original_columns, used_columns) == FilterIn(original_columns, used_columns)

\* a plausible slip: the denominator without the max(..., 1) guard
CoverageUnguarded(final_columns, original_columns) ==
    [num |-> Len(final_columns), den |-> Len(original_columns)]

\* 'coverage': len(final_columns) / max(len(original_columns), 1), kept as
\* the fraction num/den; a zero denominator is Python's ZeroDivisionError
Coverage(final_columns, original_columns) ==
    [num |-> Len(final_columns), den |-> Max(Len(original_columns), 1)]

\* lineage['mapping']: one {original, used} entry per final column
Mapping(final_columns, columns_map) ==
    IF Truthy(columns_map)
    THEN LET reverse_map == ReverseMap(columns_map)
         IN  [i \in 1..Len(final_columns) |->
                LET col == final_columns[i]
                IN  IF col \in DOMAIN reverse_map
                    THEN [original |-> reverse_map[col], used |-> col]
                    ELSE [original |-> col, used |-> col]]
    ELSE [i \in 1..Len(final_columns) |->
            [original |-> final_columns[i], used |-> final_columns[i]]]

NoLineage ==
    [raised |-> "none", used_columns |-> <<>>, column_count |-> 0,
     original_column_count |-> 0, coverage |-> [num |-> 0, den |-> 1],
     mapping |-> <<>>]

merge_lineage(original_columns, expected_columns, ast_columns, columns_map) ==
    LET used_columns == Range(expected_columns) \cup ast_columns
        \* original_used is computed by the code and then never read
        original_used ==
            IF Truthy(columns_map)
            THEN LET reverse_map == ReverseMap(columns_map)
                 IN  {IF col \in DOMAIN reverse_map THEN reverse_map[col] ELSE col :
                        col \in used_columns}
            ELSE used_columns
        final_columns == FinalColumns(original_columns, used_columns)
        cov == Coverage(final_columns, original_columns)
    IN  IF cov.den = 0
        THEN [NoLineage EXCEPT !.raised = "ZeroDivisionError"]
        ELSE [raised |-> "none",
              used_columns |-> final_columns,
              column_count |-> Len(final_columns),
              original_column_count |-> Len(original_columns),
              coverage |-> cov,
              mapping |-> Mapping(final_columns, columns_map)]

(***************************************************************************)
(* Characters                                                              *)
(***************************************************************************)
Digits == {"0", "1", "2", "3", "4", "5", "6", "7", "8", "9"}

DigitVal(c) ==
    CASE c = "0" -> 0 [] c = "1" -> 1 [] c = "2" -> 2 [] c = "3" -> 3 [] c = "4" -> 4
      [] c = "5" -> 5 [] c = "6" -> 6 [] c = "7" -> 7 [] c = "8" -> 8 [] c = "9" -> 9

UpperToLower ==
    [c \in {"A", "B", "C", "D", "E", "F", "G", "H", "I", "J", "K", "L", "M", "N", "O",
            "P", "Q", "R", "S", "T", "U", "V", "W", "X", "Y", "Z"} |->
        CASE c = "A" -> "a" [] c = "B" -> "b" [] c = "C" -> "c" [] c = "D" -> "d"
          [] c = "E" -> "e" [] c = "F" -> "f" [] c = "G" -> "g" [] c = "H" -> "h"
          [] c = "I" -> "i" [] c = "J" -> "j" [] c = "K" -> "k" [] c = "L" -> "l"
          [] c = "M" -> "m" [] c = "N" -> "n" [] c = "O" -> "o" [] c = "P" -> "p"
          [] c = "Q" -> "q" [] c = "R" -> "r" [] c = "S" -> "s" [] c = "T" -> "t"
          [] c = "U" -> "u" [] c = "V" -> "v" [] c = "W" -> "w" [] c = "X" -> "x"
          [] c = "Y" -> "y" [] c = "Z" -> "z"]

\* str.lower()
Lower(s) == [i \in 1..Len(s) |-> IF s[i] \in DOMAIN UpperToLower THEN UpperToLower[s[i]] ELSE s[i]]

AsciiChars ==
    Digits \cup DOMAIN UpperToLower \cup {UpperToLower[c] : c \in DOMAIN UpperToLower}
           \cup {" ", "-", "_", ".", ",", "?", "'", "(", ")", "[", "]", ":", "=",
                 "\"", "{", "}", "%", "\n", ">", "<", "+", "*", "/", "#", "$"}

\* [一-鿿]: every non-ASCII character of this model is of that block
IsCJK(c) == c \notin AsciiChars

\* any(pat in text for pat in patterns)
AnyIn(patterns, text) == \E i \in 1..Len(patterns) : IsSubstr(patterns[i], text)

(***************************************************************************)
(* LineageTracker.extract_columns_from_code_regex and                      *)
(* extract_columns_from_ast  (services/codegen/lineage.py)                 *)
(*                                                                         *)
(* Code is a sequence of statements.  A statement carries its source text  *)
(* and what ast.parse makes of it: ok is FALSE when the text is not valid  *)
(* Python, and nodes are the Subscript and Call nodes ast.walk yields for  *)
(* it (every other node fails both isinstance tests of the walk).  An      *)
(* expression is [type, is_str, value, elts, keys]; keyword arguments of a *)
(* call are not in Call.args and are left out.                             *)
(***************************************************************************)
Const(value) == [type |-> "Constant", is_str |-> TRUE, value |-> value, elts |-> <<>>, keys |-> <<>>]
NonStr       == [type |-> "Constant", is_str |-> FALSE, value |-> <<>>, elts |-> <<>>, keys |-> <<>>]
List(elts)   == [type |-> "List", is_str |-> FALSE, value |-> <<>>, elts |-> elts, keys |-> <<>>]
Dict(keys)   == [type |-> "Dict", is_str |-> FALSE, value |-> <<>>, elts |-> <<>>, keys |-> keys]
Other(type)  == [type |-> type, is_str |-> FALSE, value |-> <<>>, elts |-> <<>>, keys |-> <<>>]

Attribute(attr)  == [type |-> "Attribute", attr |-> attr]
Func(type)       == [type |-> type, attr |-> ""]
Subscript(slice) == [type |-> "Subscript", slice |-> slice, func |-> Func("None"), args |-> <<>>]
Call(func, args) == [type |-> "Call", slice |-> Other("None"), func |-> func, args |-> args]

\* the text handed to both extractors: the statements, one per line
RECURSIVE SourceOf(_)
SourceOf(code) ==
    IF code = <<>> THEN <<>>
    ELSE IF Len(code) = 1 THEN code[1].source
    ELSE code[1].source \o <<"\n">> \o SourceOf(Tail(code))

\* ast.parse(code): SyntaxError as soon as one statement is not valid Python
RECURSIVE WalkOf(_)
WalkOf(code) == IF code = <<>> THEN <<>> ELSE Head(code).nodes \o WalkOf(Tail(code))

ast_parse(code) ==
    IF \E i \in 1..Len(code) : ~code[i].ok
    THEN [raised |-> "SyntaxError", walk |-> <<>>]
    ELSE [raised |-> "none", walk |-> WalkOf(code)]

Quotes == {"'", "\""}

\* the group of  prefix\[['\"]([^'\"]+)['\"]\]  matched at position i of text,
\* <<>> when the pattern does not match there ([^'\"]+ takes every character
\* up to the next quote, and no shorter group can be followed by a quote)
GroupAt(text, prefix, i) ==
    LET b == i + Len(prefix)
        g == b + 2
        stop == {k \in g..Len(text) : text[k] \in Quotes}
        e == IF stop = {} THEN Len(text) + 1
             ELSE CHOOSE k \in stop : \A m \in stop : k <= m
    IN  IF /\ e + 1 <= Len(text)
           /\ SubSeq(text, i, b - 1) = prefix
           /\ text[b] = "["
           /\ text[b + 1] \in Quotes
           /\ e > g
           /\ text[e + 1] = "]"
        THEN SubSeq(text, g, e - 1)
        ELSE <<>>

\* re.findall(pattern, code): two matches of such a pattern never overlap,
\* so the matches are those at every position of the text
findall(prefix, text) == {GroupAt(text, prefix, i) : i \in 1..Len(text)} \ {<<>>}

RegexStoplist == {<<"x">>, <<"y">>, <<"n","a","m","e">>, <<"t","i","t","l","e">>, <<"t","e","x","t">>}

extract_columns_from_code_regex(code) ==
    LET text == SourceOf(code)
        matches1 == findall(<<"d","f">>, text)
        matches2 == findall(<<>>, text)
        matches3 == findall(<<"r","e","s","u","l","t">>, text)
        matches4 == findall(<<"g","r","o","u","p","e","d">>, text)
    IN  matches1
          \cup {m \in matches2 : Len(m) > 1 /\ m \notin RegexStoplist}
          \cup matches3
          \cup matches4

\* str.isalnum(): letters and digits of any script, and not the empty string
IsAlnum(s) ==
    /\ s # <<>>
    /\ \A i \in 1..Len(s) :
          \/ s[i] \in Digits
          \/ s[i] \in DOMAIN UpperToLower
          \/ s[i] \in {UpperToLower[c] : c \in DOMAIN UpperToLower}
          \/ IsCJK(s[i])

\* col_name.replace('_', '').replace('-', '').replace('.', '')
StripSeparators(s) == SelectSeq(s, LAMBDA c : c \notin {"_", "-", "."})

\* the test a string subscript key has to pass to be taken as a column name
ReasonableName(col_name) ==
    /\ col_name # <<>>
    /\ \/ \E i \in 1..Len(col_name) : IsCJK(col_name[i])
       \/ IsAlnum(StripSeparators(col_name))
       \/ Len(col_name) > 1

StrValues(exprs) ==
    {exprs[i].value : i \in {j \in 1..Len(exprs) : exprs[j].type = "Constant" /\ exprs[j].is_str}}

\* df['column_name'] and df[['col1', 'col2']]
SubscriptColumns(node) ==
    IF node.slice.type = "Constant"
    THEN IF node.slice.is_str /\ ReasonableName(node.slice.value)
         THEN {node.slice.value} ELSE {}
    ELSE IF node.slice.type = "List" THEN StrValues(node.slice.elts)
    ELSE {}

ColumnMethods == {"groupby", "sort_values", "drop", "dropna", "agg"}

\* a plausible slip: the keys of a dict argument are not looked at
ArgColumnsNoDict(arg) ==
    IF arg.type = "List" THEN StrValues(arg.elts)
    ELSE IF arg.type = "Constant" /\ arg.is_str THEN {arg.value}
    ELSE {}

\* one positional argument of a groupby/sort_values/drop/dropna/agg call
ArgColumns(arg) ==
    IF arg.type = "List" THEN StrValues(arg.elts)
    ELSE IF arg.type = "Constant" /\ arg.is_str THEN {arg.value}
    ELSE IF arg.type = "Dict" THEN StrValues(arg.keys)
    ELSE {}

CallColumns(node) ==
    IF node.func.type = "Attribute" /\ node.func.attr \in ColumnMethods
    THEN UNION {ArgColumns(node.args[i]) : i \in 1..Len(node.args)}
    ELSE {}

NodeColumns(node) ==
    IF node.type = "Subscript" THEN SubscriptColumns(node)
    ELSE IF node.type = "Call" THEN CallColumns(node)
    ELSE {}

\* a plausible slip: the SyntaxError of ast.parse is let through
extract_columns_from_ast_uncaught(code) ==
    LET tree == ast_parse(code)
    IN  [raised |-> tree.raised,
         columns |-> UNION {NodeColumns(tree.walk[i]) : i \in 1..Len(tree.walk)}]

\* `except Exception` logs a warning and the set built so far, which is
\* empty when ast.parse raised, is returned
extract_columns_from_ast(code) ==
    LET tree == ast_parse(code)
    IN  [raised |-> "none",
         columns |-> UNION {NodeColumns(tree.walk[i]) : i \in 1..Len(tree.walk)}]

(***************************************************************************)
(* Intent schema  (services/intent/schema.py)                              *)
(***************************************************************************)
AggregationTypes == {"sum", "mean", "count", "max", "min", "median"}
TrendFrequencies == {"D", "W", "M", "Q", "Y"}

r_date  == <<"d","a","t","e">>
r_value == <<"v","a","l","u","e">>
r_text  == <<"t","e","x","t">>
r_time  == <<"t","i","m","e">>
r_sales == <<"s","a","l","e","s">>
r_amount == <<"a","m","o","u","n","t">>
r_price == <<"p","r","i","c","e">>
r_geography == <<"g","e","o","g","r","a","p","h","y">>
r_product == <<"p","r","o","d","u","c","t">>
r_category == <<"c","a","t","e","g","o","r","y">>

\* Optional[...] fields: `present` is FALSE for None
NoTrend  == [present |-> FALSE, date_column |-> <<>>, frequency |-> "M", value_columns |-> <<>>]
NoGrowth == [present |-> FALSE, date_column |-> <<>>, value_column |-> <<>>, growth_type |-> ""]
NoTextAnalysis == [present |-> FALSE, text_column |-> <<>>, extract_keywords |-> TRUE, topk |-> 0]
NoInt == [present |-> FALSE, value |-> 0]
SomeInt(n) == [present |-> TRUE, value |-> n]
NoDateRange == [present |-> FALSE, start |-> <<>>, has_end |-> FALSE, end |-> <<>>]

\* the mutable default values written in the class body of Intent
IntentClassDefaults ==
    [filters |-> <<>>, groupby_columns |-> <<>>, aggregations |-> <<>>, sorts |-> <<>>,
     mentioned_columns |-> <<>>, mentioned_values |-> <<>>]

\* Intent(original_question=..., language=...): every other field takes its
\* default; pydantic copies a mutable default for each new instance
NewIntent(original_question, language, defaults) ==
    [original_question |-> original_question,
     language |-> language,
     is_aggregation |-> FALSE, is_groupby |-> FALSE, is_trend |-> FALSE,
     is_ranking |-> FALSE, is_filtering |-> FALSE, is_growth |-> FALSE,
     is_text_analysis |-> FALSE, is_price_analysis |-> FALSE,
     filters |-> defaults.filters,
     groupby_columns |-> defaults.groupby_columns,
     aggregations |-> defaults.aggregations,
     sorts |-> defaults.sorts,
     trend |-> NoTrend, growth |-> NoGrowth, text_analysis |-> NoTextAnalysis,
     top_n |-> NoInt, limit |-> NoInt,
     preferred_viz |-> "table",
     mentioned_columns |-> defaults.mentioned_columns,
     mentioned_values |-> defaults.mentioned_values,
     date_range |-> NoDateRange]

\* a plausible slip: the default lists are shared by all instances (class
\* attributes), so the in-place extend/append of parse reach the defaults
SharedDefaultsAfter(defaults, intent) ==
    [defaults EXCEPT !.filters = intent.filters,
                     !.sorts = intent.sorts,
                     !.mentioned_columns = intent.mentioned_columns]

\* the class-level defaults after parse has filled an instance: the instance
\* owns copies, so mentioned_columns.extend / sorts.append / filters.append
\* leave the defaults as they were
DefaultsAfter(defaults, intent) == defaults

(***************************************************************************)
(* IntentParser  (services/intent/parser.py)                               *)
(***************************************************************************)
AGGREGATION_PATTERNS ==
    << [op |-> "sum",
        patterns |-> <<<<"u603b">>, <<"u6c42","u548c">>, <<"u5408","u8ba1">>, <<"u7d2f","u8ba1">>, <<"u603b","u8ba1">>, <<"s","u","m">>, <<"t","o","t","a","l">>>>],
       [op |-> "mean",
        patterns |-> <<<<"u5e73","u5747">>, <<"u5747","u503c">>, <<"a","v","e","r","a","g","e">>, <<"m","e","a","n">>>>],
       [op |-> "count",
        patterns |-> <<<<"u8ba1","u6570">>, <<"u7edf","u8ba1">>, <<"u6570","u91cf">>, <<"u4e2a","u6570">>, <<"c","o","u","n","t">>, <<"n","u","m","b","e","r"," ","o","f">>>>],
       [op |-> "max",
        patterns |-> <<<<"u6700","u5927">>, <<"u6700","u9ad8">>, <<"u6700","u591a">>, <<"m","a","x">>, <<"m","a","x","i","m","u","m">>, <<"h","i","g","h","e","s","t">>>>],
       [op |-> "min",
        patterns |-> <<<<"u6700","u5c0f">>, <<"u6700","u4f4e">>, <<"u6700","u5c11">>, <<"m","i","n">>, <<"m","i","n","i","m","u","m">>, <<"l","o","w","e","s","t">>>>] >>

GROUPBY_PATTERNS ==
    <<<<"u6309">>, <<"u5206","u7ec4">>, <<"u5404">>, <<"u6bcf","u4e2a">>, <<"b","y">>, <<"p","e","r">>, <<"e","a","c","h">>, <<"g","r","o","u","p"," ","b","y">>>>

TREND_PATTERNS ==
    <<<<"u8d8b","u52bf">>, <<"u53d8","u5316">>, <<"u8d70","u52bf">>, <<"t","r","e","n","d">>, <<"c","h","a","n","g","e">>, <<"o","v","e","r"," ","t","i","m","e">>>>

TIME_FREQ_PATTERNS ==
    << [freq |-> "D",
        patterns |-> <<<<"u65e5">>, <<"u5929">>, <<"d","a","y">>, <<"d","a","i","l","y">>>>],
       [freq |-> "W",
        patterns |-> <<<<"u5468">>, <<"u661f","u671f">>, <<"w","e","e","k">>, <<"w","e","e","k","l","y">>>>],
       [freq |-> "M",
        patterns |-> <<<<"u6708">>, <<"u6708","u4efd">>, <<"u6708","u5ea6">>, <<"m","o","n","t","h">>, <<"m","o","n","t","h","l","y">>>>],
       [freq |-> "Q",
        patterns |-> <<<<"u5b63","u5ea6">>, <<"q","u","a","r","t","e","r">>, <<"q","u","a","r","t","e","r","l","y">>>>],
       [freq |-> "Y",
        patterns |-> <<<<"u5e74">>, <<"u5e74","u5ea6">>, <<"y","e","a","r">>, <<"y","e","a","r","l","y">>, <<"a","n","n","u","a","l">>>>] >>

RANKING_PATTERNS ==
    <<<<"u6392","u540d">>, <<"u524d">>, <<"u540e">>, <<"t","o","p">>, <<"b","o","t","t","o","m">>, <<"r","a","n","k">>, <<"u6700">>>>

GROWTH_PATTERNS ==
    << [growth_type |-> "yoy",
        patterns |-> <<<<"u540c","u6bd4">>, <<"y","e","a","r","-","o","v","e","r","-","y","e","a","r">>, <<"y","o","y">>>>],
       [growth_type |-> "mom",
        patterns |-> <<<<"u73af","u6bd4">>, <<"m","o","n","t","h","-","o","v","e","r","-","m","o","n","t","h">>, <<"m","o","m">>>>],
       [growth_type |-> "general",
        patterns |-> <<<<"u589e","u957f">>, <<"u589e","u901f">>, <<"g","r","o","w","t","h">>, <<"i","n","c","r","e","a","s","e">>>>] >>

TEXT_PATTERNS ==
    <<<<"u5173","u952e","u8bcd">>, <<"u610f","u89c1">>, <<"u8bc4","u8bba">>, <<"k","e","y","w","o","r","d">>, <<"c","o","m","m","e","n","t">>, <<"t","e","x","t">>>>

PRICE_PATTERNS ==
    <<<<"u4ef7","u683c">>, <<"u6210","u672c">>, <<"u6298","u6263">>, <<"u6e05","u4ed3">>, <<"u96f6","u552e","u4ef7">>, <<"p","r","i","c","e">>, <<"c","o","s","t">>, <<"d","i","s","c","o","u","n","t">>, <<"c","l","e","a","r","a","n","c","e">>>>

GroupbyDimensions ==
    << [dim |-> <<"g","e","o","g","r","a","p","h","y">>,
        patterns |-> <<<<"u5730","u533a">>, <<"u57ce","u5e02">>, <<"u7701","u4efd">>, <<"r","e","g","i","o","n">>, <<"c","i","t","y">>, <<"p","r","o","v","i","n","c","e">>>>],
       [dim |-> <<"t","i","m","e">>,
        patterns |-> <<<<"u6708">>, <<"u5e74">>, <<"m","o","n","t","h">>, <<"y","e","a","r">>>>],
       [dim |-> <<"p","r","o","d","u","c","t">>,
        patterns |-> <<<<"u4ea7","u54c1">>, <<"u5546","u54c1">>, <<"p","r","o","d","u","c","t">>, <<"i","t","e","m">>, <<"s","k","u">>>>],
       [dim |-> <<"c","a","t","e","g","o","r","y">>,
        patterns |-> <<<<"u7c7b","u522b">>, <<"u54c1","u7c7b">>, <<"u5206","u7c7b">>, <<"c","a","t","e","g","o","r","y">>, <<"t","y","p","e">>>>] >>

\* keywords tested one by one in detect_visualization and in the ranking branch

DefaultTopN == 10
TextTopK == 20


\* detect_language
detect_language(question) ==
    IF \E i \in 1..Len(question) : IsCJK(question[i]) THEN "zh" ELSE "en"

\* length of the digit run that starts s
LeadingDigits(s) ==
    CHOOSE n \in 0..Len(s) :
        /\ \A i \in 1..n : s[i] \in Digits
        /\ (n = Len(s) \/ s[n + 1] \notin Digits)

\* int(n) for a digit run
RECURSIVE IntOf(_)
IntOf(run) == IF run = <<>> THEN 0 ELSE 10 * IntOf(SubSeq(run, 1, Len(run) - 1)) + DigitVal(run[Len(run)])

\* re.findall(r'\d+', question), each converted by int
RECURSIVE extract_numbers(_)
extract_numbers(question) ==
    IF question = <<>> THEN <<>>
    ELSE IF Head(question) \notin Digits THEN extract_numbers(Tail(question))
    ELSE LET n == LeadingDigits(question)
         IN  <<IntOf(SubSeq(question, 1, n))>> \o
             extract_numbers(SubSeq(question, n + 1, Len(question)))

\* re.findall(r'20\d{2}', question): leftmost, non-overlapping
RECURSIVE YearTokens(_)
YearTokens(s) ==
    IF Len(s) < 4 THEN <<>>
    ELSE IF s[1] = "2" /\ s[2] = "0" /\ s[3] \in Digits /\ s[4] \in Digits
         THEN <<SubSeq(s, 1, 4)>> \o YearTokens(SubSeq(s, 5, Len(s)))
         ELSE YearTokens(Tail(s))


extract_date_range(question) ==
    LET years == YearTokens(question)
    IN  IF Len(years) >= 2
        THEN [present |-> TRUE, start |-> years[1] \o <<"-","0","1","-","0","1">>, has_end |-> TRUE,
              end |-> years[2] \o <<"-","1","2","-","3","1">>]
        ELSE IF Len(years) = 1
        THEN IF IsSubstr(<<"u8d77">>, question) \/ IsSubstr(<<"s","i","n","c","e">>, Lower(question))
             THEN [present |-> TRUE, start |-> years[1] \o <<"-","0","1","-","0","1">>, has_end |-> FALSE,
                   end |-> <<>>]
             ELSE [present |-> TRUE, start |-> years[1] \o <<"-","0","1","-","0","1">>, has_end |-> TRUE,
                   end |-> years[1] \o <<"-","1","2","-","3","1">>]
        ELSE NoDateRange

\* one AggregationSpec per operation of the table that has a pattern in the question
RECURSIVE AggregationsFrom(_, _)
AggregationsFrom(table, question) ==
    IF table = <<>> THEN <<>>
    ELSE (IF AnyIn(Head(table).patterns, question)
          THEN <<[column |-> r_value, operation |-> Head(table).op]>>
          ELSE <<>>) \o AggregationsFrom(Tail(table), question)

\* a plausible slip: the scan stops at the first operation that has a keyword
detect_aggregation_first(question) ==
    SubSeq(AggregationsFrom(AGGREGATION_PATTERNS, question), 1,
           Min(1, Len(AggregationsFrom(AGGREGATION_PATTERNS, question))))

detect_aggregation(question) == AggregationsFrom(AGGREGATION_PATTERNS, question)

RECURSIVE DimensionsFrom(_, _)
DimensionsFrom(table, question) ==
    IF table = <<>> THEN <<>>
    ELSE (IF AnyIn(Head(table).patterns, question) THEN <<Head(table).dim>> ELSE <<>>)
         \o DimensionsFrom(Tail(table), question)

detect_groupby(question) == DimensionsFrom(GroupbyDimensions, question)

\* the first frequency, in table order, that has a pattern in the question
detect_trend_frequency(question) ==
    LET hits == {i \in 1..Len(TIME_FREQ_PATTERNS) :
                    AnyIn(TIME_FREQ_PATTERNS[i].patterns, question)}
    IN  IF hits = {} THEN [present |-> FALSE, value |-> ""]
        ELSE [present |-> TRUE,
              value |-> TIME_FREQ_PATTERNS[CHOOSE i \in hits : \A j \in hits : i <= j].freq]

\* a plausible slip: the intent-based inference without its conditions
detect_visualization_bar(question, is_trend, is_ranking, is_groupby) ==
    IF is_trend THEN "line" ELSE "bar"

detect_visualization(question, is_trend, is_ranking, is_groupby) ==
    LET has(w) == IsSubstr(w, question)
        explicit ==
            IF has(<<"u56fe">>) \/ has(<<"u56fe","u8868">>) \/ has(<<"c","h","a","r","t">>)
            THEN IF has(<<"u6298","u7ebf">>) \/ has(<<"u8d8b","u52bf">>) \/ has(<<"l","i","n","e">>) THEN "line"
                 ELSE IF has(<<"u67f1","u72b6">>) \/ has(<<"u6761","u5f62">>) \/ has(<<"b","a","r">>) THEN "bar"
                 ELSE IF has(<<"u997c","u56fe">>) \/ has(<<"p","i","e">>) THEN "pie"
                 ELSE ""
            ELSE ""
    IN  IF explicit # "" THEN explicit
        ELSE IF is_trend THEN "line"
        ELSE IF is_ranking \/ is_groupby THEN "bar"
        ELSE IF has(<<"u5360","u6bd4">>) \/ has(<<"u6bd4","u4f8b">>) \/ has(<<"p","r","o","p","o","r","t","i","o","n">>) THEN "pie"
        ELSE "table"

\* the sort spec appended in the ranking branch (empty when neither keyword group is found)
\* a plausible slip: two independent ifs, so a question with both kinds of
\* superlative gets both entries
RankingSortsBoth(question) ==
    (IF \/ IsSubstr(<<"u6700","u5927">>, question) \/ IsSubstr(<<"u6700","u9ad8">>, question)
        \/ IsSubstr(<<"u6700","u591a">>, question) \/ IsSubstr(<<"t","o","p">>, Lower(question))
     THEN <<[column |-> r_value, order |-> "desc"]>> ELSE <<>>)
    \o (IF \/ IsSubstr(<<"u6700","u5c0f">>, question) \/ IsSubstr(<<"u6700","u4f4e">>, question)
           \/ IsSubstr(<<"u6700","u5c11">>, question)
           \/ IsSubstr(<<"b","o","t","t","o","m">>, Lower(question))
        THEN <<[column |-> r_value, order |-> "asc"]>> ELSE <<>>)

RankingSorts(question) ==
    IF \/ IsSubstr(<<"u6700","u5927">>, question) \/ IsSubstr(<<"u6700","u9ad8">>, question)
       \/ IsSubstr(<<"u6700","u591a">>, question) \/ IsSubstr(<<"t","o","p">>, Lower(question))
    THEN <<[column |-> r_value, order |-> "desc"]>>
    ELSE IF \/ IsSubstr(<<"u6700","u5c0f">>, question) \/ IsSubstr(<<"u6700","u4f4e">>, question)
            \/ IsSubstr(<<"u6700","u5c11">>, question) \/ IsSubstr(<<"b","o","t","t","o","m">>, Lower(question))
    THEN <<[column |-> r_value, order |-> "asc"]>>
    ELSE <<>>

\* the growth loop has no break out of the outer loop: the last growth type,
\* in table order, with a pattern in the question is the one that stays
GrowthTypeOf(question) ==
    LET hits == {i \in 1..Len(GROWTH_PATTERNS) : AnyIn(GROWTH_PATTERNS[i].patterns, question)}
    IN  IF hits = {} THEN ""
        ELSE GROWTH_PATTERNS[CHOOSE i \in hits : \A j \in hits : j <= i].growth_type

\* the filters appended for a date range
DateFilters(date_range) ==
    (IF date_range.present /\ date_range.start # <<>>
     THEN <<[column |-> r_date, operator |-> ">=", value |-> date_range.start]>>
     ELSE <<>>) \o
    (IF date_range.present /\ date_range.has_end /\ date_range.end # <<>>
     THEN <<[column |-> r_date, operator |-> "<=", value |-> date_range.end]>>
     ELSE <<>>)

\* parse raises when a model constructor rejects a value (pydantic
\* ValidationError for AggregationSpec.operation, ValueError for TrendFrequency)
ParseRaises(question) ==
    \/ \E i \in 1..Len(detect_aggregation(question)) :
           detect_aggregation(question)[i].operation \notin AggregationTypes
    \/ /\ AnyIn(TREND_PATTERNS, question)
       /\ detect_trend_frequency(question).present
       /\ detect_trend_frequency(question).value \notin TrendFrequencies

\* IntentParser.parse; `defaults` are the class-level defaults of Intent at the call
parse(question, defaults) ==
    LET i0 == NewIntent(question, detect_language(question), defaults)
        aggregations == detect_aggregation(question)
        groupby_keywords == detect_groupby(question)
        trend_hit == AnyIn(TREND_PATTERNS, question)
        freq == detect_trend_frequency(question)
        ranking_hit == AnyIn(RANKING_PATTERNS, question)
        numbers == extract_numbers(question)
        growth_type == GrowthTypeOf(question)
        text_hit == AnyIn(TEXT_PATTERNS, question)
        price_hit == AnyIn(PRICE_PATTERNS, question)
        date_range == extract_date_range(question)
        is_groupby == groupby_keywords # <<>>
    IN  [i0 EXCEPT
           !.is_aggregation = (aggregations # <<>>),
           !.aggregations = IF aggregations # <<>> THEN aggregations ELSE i0.aggregations,
           !.is_groupby = is_groupby,
           !.mentioned_columns = i0.mentioned_columns \o groupby_keywords,
           !.is_trend = trend_hit,
           !.trend = IF trend_hit
                     THEN [present |-> TRUE, date_column |-> r_date,
                           frequency |-> IF freq.present THEN freq.value ELSE "M",
                           value_columns |-> <<>>]
                     ELSE NoTrend,
           !.is_ranking = ranking_hit,
           !.top_n = IF ranking_hit
                     THEN (IF numbers # <<>> THEN SomeInt(numbers[1]) ELSE SomeInt(DefaultTopN))
                     ELSE NoInt,
           !.sorts = IF ranking_hit THEN i0.sorts \o RankingSorts(question) ELSE i0.sorts,
           !.is_growth = (growth_type # ""),
           !.growth = IF growth_type # ""
                      THEN [present |-> TRUE, date_column |-> r_date,
                            value_column |-> r_value, growth_type |-> growth_type]
                      ELSE NoGrowth,
           !.is_text_analysis = text_hit,
           !.text_analysis = IF text_hit
                             THEN [present |-> TRUE, text_column |-> r_text,
                                   extract_keywords |-> TRUE, topk |-> TextTopK]
                             ELSE NoTextAnalysis,
           !.is_price_analysis = price_hit,
           !.date_range = date_range,
           !.filters = i0.filters \o DateFilters(date_range),
           !.preferred_viz = detect_visualization(question, trend_hit, ranking_hit, is_groupby)]

(***************************************************************************)
(* Fractions: scores are kept exact as num/den with den > 0                *)
(***************************************************************************)
Frac(n, d) == [num |-> n, den |-> d]
FMul(a, b) == [num |-> a.num * b.num, den |-> a.den * b.den]
FGe(a, b)  == a.num * b.den >= b.num * a.den
FGt(a, b)  == a.num * b.den > b.num * a.den

(***************************************************************************)
(* RAGIndexer.build_index  (services/rag/indexer.py)                       *)
(*                                                                         *)
(* The knowledge-base directory holds four files.  An embedding file is    *)
(* modelled by its number of rows; types is an ordered dict, a sequence of *)
(* [k, v] items.                                                           *)
(***************************************************************************)
NoFiles ==
    [doc_embeddings |-> [present |-> FALSE, rows |-> 0],
     col_embeddings |-> [present |-> FALSE, rows |-> 0],
     doc_metadata   |-> [present |-> FALSE, docs |-> <<>>],
     col_metadata   |-> [present |-> FALSE, cols |-> <<>>]]

\* doc_metadata.append({...}) for one summary
DocMetadataOf(summary) ==
    [file_name |-> summary.file_name, sheet_name |-> summary.sheet_name,
     row_count |-> summary.row_count, column_count |-> summary.column_count,
     columns |-> summary.columns, types |-> summary.types,
     date_range |-> summary.date_range]

\* col_metadata entries of one summary, one per field description
ColMetadataOf(summary) ==
    [i \in 1..Len(summary.columns) |->
        [file_name |-> summary.file_name, sheet_name |-> summary.sheet_name,
         column_name |-> summary.columns[i]]]

RECURSIVE AllColMetadata(_)
AllColMetadata(summaries) ==
    IF summaries = <<>> THEN <<>>
    ELSE ColMetadataOf(Head(summaries)) \o AllColMetadata(Tail(summaries))

\* the four files after build_index(summaries) has run to its end
build_index(summaries) ==
    LET doc_metadata == [i \in 1..Len(summaries) |-> DocMetadataOf(summaries[i])]
        col_metadata == AllColMetadata(summaries)
    IN  [doc_embeddings |-> [present |-> TRUE, rows |-> Len(doc_metadata)],
         col_embeddings |-> [present |-> TRUE, rows |-> Len(col_metadata)],
         doc_metadata   |-> [present |-> TRUE, docs |-> doc_metadata],
         col_metadata   |-> [present |-> TRUE, cols |-> col_metadata]]

(***************************************************************************)
(* RAGRetriever  (services/rag/retriever.py)                               *)
(***************************************************************************)
DocNeighbors == 10
ColNeighbors == 20

NoneNN == [fitted |-> FALSE, n_neighbors |-> 0, n_samples |-> 0]

\* the module-level _rag_retriever before get_rag_retriever has built one
NoRetriever ==
    [created |-> FALSE, doc_metadata |-> <<>>, col_metadata |-> <<>>,
     doc_nn |-> NoneNN, col_nn |-> NoneNN]

\* sklearn NearestNeighbors(n_neighbors=k).fit(X): ValueError unless k >= 1
\* and X holds at least one sample
FitRaises(n_neighbors, n_samples) == n_neighbors < 1 \/ n_samples < 1

\* RAGRetriever.__init__ followed by _load_index: the instance, or the
\* exception that leaves the caller without one
LoadIndex(files) ==
    IF ~files.doc_embeddings.present
    THEN [raised |-> "none", retriever |-> [NoRetriever EXCEPT !.created = TRUE]]
    ELSE LET doc_metadata == files.doc_metadata.docs
             col_metadata == files.col_metadata.cols
             doc_n_neighbors == Min(DocNeighbors, Len(doc_metadata))
             col_n_neighbors == Max(1, Min(ColNeighbors, Len(col_metadata)))
         IN  IF FitRaises(doc_n_neighbors, files.doc_embeddings.rows)
             THEN [raised |-> "ValueError", retriever |-> NoRetriever]
             ELSE [raised |-> "none",
                   retriever |->
                     [created |-> TRUE,
                      doc_metadata |-> doc_metadata,
                      col_metadata |-> col_metadata,
                      doc_nn |-> [fitted |-> TRUE, n_neighbors |-> doc_n_neighbors,
                                  n_samples |-> files.doc_embeddings.rows],
                      col_nn |-> IF Len(col_metadata) > 0 /\ files.col_embeddings.rows > 0
                                 THEN [fitted |-> TRUE, n_neighbors |-> col_n_neighbors,
                                       n_samples |-> files.col_embeddings.rows]
                                 ELSE NoneNN]]

\* extract_keywords: patterns
KeywordCategories ==
    << [category |-> <<"g","e","o","g","r","a","p","h","y">>,
        terms |-> <<<<"u5730","u533a">>, <<"u57ce","u5e02">>, <<"u7701","u4efd">>, <<"u533a","u57df">>, <<"r","e","g","i","o","n">>, <<"c","i","t","y">>>>],
       [category |-> <<"t","i","m","e">>,
        terms |-> <<<<"u65e5","u671f">>, <<"u65f6","u95f4">>, <<"u6708">>, <<"u5e74">>, <<"d","a","t","e">>, <<"t","i","m","e">>, <<"m","o","n","t","h">>, <<"y","e","a","r">>>>],
       [category |-> <<"s","a","l","e","s">>,
        terms |-> <<<<"u9500","u552e">>, <<"u9500","u91cf">>, <<"u91d1","u989d">>, <<"s","a","l","e","s">>, <<"a","m","o","u","n","t">>, <<"r","e","v","e","n","u","e">>>>],
       [category |-> <<"p","r","o","d","u","c","t">>,
        terms |-> <<<<"u4ea7","u54c1">>, <<"u5546","u54c1">>, <<"S","K","U">>, <<"p","r","o","d","u","c","t">>, <<"i","t","e","m">>>>],
       [category |-> <<"p","r","i","c","e">>,
        terms |-> <<<<"u4ef7","u683c">>, <<"u6210","u672c">>, <<"u6298","u6263">>, <<"u6e05","u4ed3">>, <<"p","r","i","c","e">>, <<"c","o","s","t">>, <<"d","i","s","c","o","u","n","t">>>>],
       [category |-> <<"g","r","o","w","t","h">>,
        terms |-> <<<<"u589e","u957f">>, <<"u540c","u6bd4">>, <<"u73af","u6bd4">>, <<"u8d8b","u52bf">>, <<"g","r","o","w","t","h">>, <<"t","r","e","n","d">>, <<"y","o","y">>>>],
       [category |-> <<"a","g","g","r","e","g","a","t","i","o","n">>,
        terms |-> <<<<"u603b">>, <<"u5e73","u5747">>, <<"u6700","u5927">>, <<"u6700","u5c0f">>, <<"s","u","m">>, <<"a","v","e","r","a","g","e">>, <<"t","o","t","a","l">>, <<"m","a","x">>, <<"m","i","n">>>>],
       [category |-> <<"r","a","n","k","i","n","g">>,
        terms |-> <<<<"u6392","u540d">>, <<"u524d">>, <<"t","o","p">>, <<"b","o","t","t","o","m">>, <<"r","a","n","k">>>>] >>

\* the aggregation words of the numeric bonus
NumericBonusWords ==
    <<<<"u603b">>, <<"u5e73","u5747">>, <<"u6c42","u548c">>, <<"u7edf","u8ba1">>, <<"s","u","m">>, <<"a","v","e","r","a","g","e">>, <<"t","o","t","a","l">>>>


dr_2022_2023 == <<"u65e5","u671f",":"," ","2","0","2","2","-","0","7","-","0","1"," ","~"," ","2","0","2","3","-","1","2","-","3","1">>
dr_2024 == <<"u65e5","u671f",":"," ","2","0","2","4","-","0","1","-","0","1"," ","~"," ","2","0","2","4","-","0","6","-","3","0">>

\* RAGRetriever.extract_keywords: the categories with a term in the question
RECURSIVE CategoriesFrom(_, _)
CategoriesFrom(table, question) ==
    IF table = <<>> THEN <<>>
    ELSE (IF AnyIn(Head(table).terms, question) THEN <<Head(table).category>> ELSE <<>>)
         \o CategoriesFrom(Tail(table), question)

extract_keywords(question) == CategoriesFrom(KeywordCategories, question)

\* RAGRetriever.compute_field_coverage: the keyword itself is looked up in
\* the lower-cased column names
compute_field_coverage(question, columns) ==
    LET keywords == extract_keywords(question)
        matches == Cardinality({i \in 1..Len(keywords) :
                       \E j \in 1..Len(columns) : IsSubstr(keywords[i], Lower(columns[j]))})
    IN  IF keywords = <<>> THEN Frac(1, 2) ELSE Frac(matches, Len(keywords))

\* [col for col, t in types.items() if t == wanted]
RECURSIVE ColsOfType(_, _)
ColsOfType(types, wanted) ==
    IF types = <<>> THEN <<>>
    ELSE (IF Head(types).v = wanted THEN <<Head(types).k>> ELSE <<>>)
         \o ColsOfType(Tail(types), wanted)

DateScore(question, date_range) ==
    IF IsSubstr(<<"2","0","2","3">>, question) \/ IsSubstr(<<"2","0","2","4">>, question) \/ IsSubstr(<<"2","0","2","5">>, question)
    THEN IF date_range # <<>>
         THEN IF IsSubstr(<<"2","0","2","3">>, question) /\ IsSubstr(<<"2","0","2","3">>, date_range) THEN Frac(6, 5)
              ELSE IF IsSubstr(<<"2","0","2","4">>, question) /\ IsSubstr(<<"2","0","2","4">>, date_range) THEN Frac(6, 5)
              ELSE IF IsSubstr(<<"2","0","2","5">>, question) /\ IsSubstr(<<"2","0","2","5">>, date_range) THEN Frac(6, 5)
              ELSE Frac(1, 1)
         ELSE Frac(1, 1)
    ELSE Frac(1, 1)

NumericBonus(question, types) ==
    IF AnyIn(NumericBonusWords, question)
    THEN LET numeric_cols == ColsOfType(types, "numeric")
         IN  IF numeric_cols # <<>>
             THEN Frac(2 * Len(types) + Len(numeric_cols), 2 * Len(types))
             ELSE Frac(1, 1)
    ELSE Frac(1, 1)

\* matched_cols of the rationale
MatchedCols(question, columns) ==
    LET keywords == extract_keywords(question)
    IN  SelectSeq(columns,
                  LAMBDA col : \E i \in 1..Len(keywords) : IsSubstr(keywords[i], Lower(col)))

\* the candidate dict built for one neighbour; dist is the cosine distance in halves
CandidateOf(metadata, dist, question) ==
    LET semantic_score == Frac(2 - dist, 2)
        coverage_score == compute_field_coverage(question, metadata.columns)
        date_score == DateScore(question, metadata.date_range)
        numeric_bonus == NumericBonus(question, metadata.types)
        final_score == FMul(FMul(semantic_score, Frac(coverage_score.den + coverage_score.num,
                                                      coverage_score.den)),
                            FMul(date_score, numeric_bonus))
        matched_cols == MatchedCols(question, metadata.columns)
    IN  [file_name |-> metadata.file_name,
         sheet_name |-> metadata.sheet_name,
         score |-> final_score,
         semantic_score |-> semantic_score,
         coverage_score |-> coverage_score,
         columns |-> metadata.columns,
         types |-> metadata.types,
         row_count |-> metadata.row_count,
         column_count |-> Len(metadata.columns),
         date_range |-> metadata.date_range,
         rationale |-> <<"semantic", "coverage">>
                       \o (IF FGt(date_score, Frac(1, 1)) THEN <<"date_range">> ELSE <<>>)
                       \o (IF FGt(numeric_bonus, Frac(1, 1)) THEN <<"numeric">> ELSE <<>>)
                       \o (IF matched_cols # <<>> THEN <<"matched">> ELSE <<>>),
         matched_cols |-> SubSeq(matched_cols, 1, Min(5, Len(matched_cols)))]

\* doc_nn.kneighbors: the n_neighbors nearest samples, nearest first
RECURSIVE NearestFirst(_, _)
NearestFirst(S, dist) ==
    IF S = {} THEN <<>>
    ELSE LET i == CHOOSE i \in S :
                    \A j \in S : dist[i] < dist[j] \/ (dist[i] = dist[j] /\ i <= j)
         IN  <<i>> \o NearestFirst(S \ {i}, dist)

kneighbors(nn, dist) == SubSeq(NearestFirst(1..nn.n_samples, dist), 1, nn.n_neighbors)

\* a plausible slip: only disallow_files is applied
PassesFiltersNoAllow(file_name, allow_files, disallow_files) ==
    ~(Truthy(disallow_files) /\ file_name \in Range(disallow_files.items))

\* the two `continue` tests of the candidate loop
PassesFilters(file_name, allow_files, disallow_files) ==
    /\ ~(Truthy(allow_files) /\ file_name \notin Range(allow_files.items))
    /\ ~(Truthy(disallow_files) /\ file_name \in Range(disallow_files.items))

\* candidates.sort(key=lambda x: x['score'], reverse=True): stable
RECURSIVE SortByScore(_)
SortByScore(candidates) ==
    IF candidates = <<>> THEN <<>>
    ELSE LET rest == SortByScore(Tail(candidates))
             c == Head(candidates)
             \* c goes before the first element with a score not above its own
             k == CHOOSE k \in 0..Len(rest) :
                     /\ \A i \in 1..k : FGt(rest[i].score, c.score)
                     /\ (k = Len(rest) \/ ~FGt(rest[k + 1].score, c.score))
         IN  SubSeq(rest, 1, k) \o <<c>> \o SubSeq(rest, k + 1, Len(rest))

\* s[:k]
Prefix(s, k) ==
    IF k >= 0 THEN SubSeq(s, 1, Min(k, Len(s))) ELSE SubSeq(s, 1, Max(Len(s) + k, 0))

\* RAGRetriever.search; dist[i] is the cosine distance, in halves, between the
\* question's embedding and the embedding of document i
search(retriever, question, top_k, allow_files, disallow_files, dist) ==
    IF ~retriever.doc_nn.fitted THEN <<>>
    ELSE LET actual_top_k == Min(top_k, Len(retriever.doc_metadata))
             indices == kneighbors(retriever.doc_nn, dist)
             kept == SelectSeq(indices,
                        LAMBDA idx : PassesFilters(retriever.doc_metadata[idx].file_name,
                                                   allow_files, disallow_files))
             candidates == [n \in 1..Len(kept) |->
                               CandidateOf(retriever.doc_metadata[kept[n]], dist[kept[n]],
                                           question)]
         IN  Prefix(SortByScore(candidates), actual_top_k)

(***************************************************************************)
(* FileSelector.select  (services/planner/file_select.py)                  *)
(***************************************************************************)
SelectRationale(intent, candidate) ==
    candidate.rationale
    \o (IF intent.is_trend
        THEN (IF ColsOfType(candidate.types, "date") # <<>> THEN <<"date_cols">>
              ELSE <<"warn_no_date_col">>)
        ELSE <<>>)
    \o (IF intent.is_aggregation /\ ColsOfType(candidate.types, "numeric") # <<>>
        THEN <<"numeric_cols">> ELSE <<>>)
    \o (IF intent.is_text_analysis /\ ColsOfType(candidate.types, "text") # <<>>
        THEN <<"text_cols">> ELSE <<>>)

select(retriever, intent, top_k, allow_files, disallow_files, dist) ==
    LET candidates == search(retriever, intent.original_question, top_k,
                             allow_files, disallow_files, dist)
    IN  [i \in 1..Len(candidates) |->
            [candidates[i] EXCEPT !.rationale = SelectRationale(intent, candidates[i])]]

(***************************************************************************)
(* fuzzy_match_cols  (utils/df_utils.py): difflib.get_close_matches        *)
(***************************************************************************)
\* characters in code point order: the ASCII letters, digits and punctuation and
\* the CJK characters that occur in the column names used here
CharOrder ==
    << " ", "(", ")", "-", ".", "/", "0", "1", "2", "3", "4", "5",
       "6", "7", "8", "9", ":", "A", "B", "C", "D", "E", "F", "G",
       "H", "I", "J", "K", "L", "M", "N", "O", "P", "Q", "R", "S",
       "T", "U", "V", "W", "X", "Y", "Z", "_", "a", "b", "c", "d",
       "e", "f", "g", "h", "i", "j", "k", "l", "m", "n", "o", "p",
       "q", "r", "s", "t", "u", "v", "w", "x", "y", "z", "u4ea7", "u4ed3",
       "u4ef7", "u533a", "u540d", "u54c1", "u552e", "u5730", "u5907", "u65e5", "u671f", "u683c", "u6ce8", "u6e05",
       "u79f0", "u9500", "u989d" >>

CodePointRank(c) == CHOOSE i \in 1..Len(CharOrder) : CharOrder[i] = c

\* a > b for two Python strings
RECURSIVE StrGt(_, _)
StrGt(a, b) ==
    IF a = <<>> THEN FALSE
    ELSE IF b = <<>> THEN TRUE
    ELSE IF Head(a) = Head(b) THEN StrGt(Tail(a), Tail(b))
    ELSE CodePointRank(Head(a)) > CodePointRank(Head(b))

\* the length of the common run of a from i and b from j
RECURSIVE RunLength(_, _, _, _)
RunLength(a, b, i, j) ==
    IF i > Len(a) \/ j > Len(b) THEN 0
    ELSE IF a[i] # b[j] THEN 0
    ELSE 1 + RunLength(a, b, i + 1, j + 1)

\* SequenceMatcher.find_longest_match: <<i, j, k>> with a[i..i+k-1] = b[j..j+k-1],
\* k maximal, then i minimal, then j minimal; k = 0 when nothing matches
LongestMatch(a, b) ==
    LET blocks == {<<s[1], s[2], RunLength(a, b, s[1], s[2])>> :
                      s \in {t \in (1..Len(a)) \X (1..Len(b)) : a[t[1]] = b[t[2]]}}
    IN  IF blocks = {} THEN <<1, 1, 0>>
        ELSE CHOOSE blk \in blocks :
                \A o \in blocks :
                    \/ blk[3] > o[3]
                    \/ blk[3] = o[3] /\ blk[1] < o[1]
                    \/ blk[3] = o[3] /\ blk[1] = o[1] /\ blk[2] <= o[2]

\* SequenceMatcher.get_matching_blocks: the number of matched characters
RECURSIVE MatchCount(_, _)
MatchCount(a, b) ==
    IF a = <<>> \/ b = <<>> THEN 0
    ELSE With(LongestMatch(a, b),
              LAMBDA blk :
                 IF blk[3] = 0 THEN 0
                 ELSE blk[3]
                      + MatchCount(SubSeq(a, 1, blk[1] - 1), SubSeq(b, 1, blk[2] - 1))
                      + MatchCount(SubSeq(a, blk[1] + blk[3], Len(a)),
                                   SubSeq(b, blk[2] + blk[3], Len(b))))

\* SequenceMatcher(a, b).ratio() = 2.0 * matches / (len(a) + len(b))
Ratio(a, b) ==
    IF Len(a) + Len(b) = 0 THEN Frac(1, 1)
    ELSE Frac(2 * MatchCount(a, b), Len(a) + Len(b))

\* cutoff = 0.6
Cutoff == Frac(6, 10)
MaxMatches == 5

\* the candidates in decreasing order of (ratio, string), as heapq.nlargest
\* orders the (score, x) pairs
RECURSIVE BestFirst(_, _)
BestFirst(ratios, S) ==
    IF S = {} THEN <<>>
    ELSE LET x == CHOOSE x \in S :
                    \A y \in S \ {x} :
                        \/ FGt(ratios[x], ratios[y])
                        \/ ratios[x].num * ratios[y].den = ratios[y].num * ratios[x].den
                           /\ StrGt(x, y)
         IN  <<x>> \o BestFirst(ratios, S \ {x})

\* difflib.get_close_matches(need, cols, n=5, cutoff=0.6); seq1 is the column
fuzzy_match_cols(need, cols) ==
    With([x \in Range(cols) |-> Ratio(x, need)],
         LAMBDA ratios :
            LET ranked == BestFirst(ratios, {x \in Range(cols) : FGe(ratios[x], Cutoff)})
            IN  SubSeq(ranked, 1, Min(MaxMatches, Len(ranked))))

(***************************************************************************)
(* QueryRewriter  (services/planner/query_rewrite.py)                      *)
(*                                                                         *)
(* A column name that may be None is a sequence and None is the empty      *)
(* sequence; the column names of a sheet are never empty.                  *)
(***************************************************************************)
\* resolve_columns: type_mapping
TypeMapping ==
    << [keyword |-> <<"g","e","o","g","r","a","p","h","y">>, type |-> "categorical"],
       [keyword |-> <<"t","i","m","e">>, type |-> "date"],
       [keyword |-> <<"d","a","t","e">>, type |-> "date"],
       [keyword |-> <<"v","a","l","u","e">>, type |-> "numeric"],
       [keyword |-> <<"a","m","o","u","n","t">>, type |-> "numeric"],
       [keyword |-> <<"s","a","l","e","s">>, type |-> "numeric"],
       [keyword |-> <<"t","e","x","t">>, type |-> "text"] >>

\* resolve_columns: keyword_patterns
KeywordPatterns ==
    << [keyword |-> <<"g","e","o","g","r","a","p","h","y">>,
        patterns |-> <<<<"u5730","u533a">>, <<"u57ce","u5e02">>, <<"u7701","u4efd">>, <<"u533a","u57df">>, <<"r","e","g","i","o","n">>, <<"c","i","t","y">>, <<"p","r","o","v","i","n","c","e">>>>],
       [keyword |-> <<"t","i","m","e">>,
        patterns |-> <<<<"u65e5","u671f">>, <<"u65f6","u95f4">>, <<"u6708">>, <<"u5e74">>, <<"d","a","t","e">>, <<"t","i","m","e">>, <<"m","o","n","t","h">>, <<"y","e","a","r">>>>],
       [keyword |-> <<"s","a","l","e","s">>,
        patterns |-> <<<<"u9500","u552e">>, <<"u9500","u91cf">>, <<"u91d1","u989d">>, <<"s","a","l","e","s">>, <<"a","m","o","u","n","t">>, <<"r","e","v","e","n","u","e">>>>],
       [keyword |-> <<"p","r","o","d","u","c","t">>,
        patterns |-> <<<<"u4ea7","u54c1">>, <<"u5546","u54c1">>, <<"p","r","o","d","u","c","t">>, <<"i","t","e","m">>, <<"n","a","m","e">>, <<"u540d","u79f0">>>>],
       [keyword |-> <<"p","r","i","c","e">>,
        patterns |-> <<<<"u4ef7","u683c">>, <<"u6210","u672c">>, <<"u6e05","u4ed3">>, <<"u96f6","u552e">>, <<"p","r","i","c","e">>, <<"c","o","s","t">>, <<"c","l","e","a","r","a","n","c","e">>>>],
       [keyword |-> <<"t","e","x","t">>,
        patterns |-> <<<<"u610f","u89c1">>, <<"u8bc4","u8bba">>, <<"u5907","u6ce8">>, <<"c","o","m","m","e","n","t">>, <<"n","o","t","e">>, <<"r","e","m","a","r","k">>>>] >>

r_qingcangjia == <<"u6e05","u4ed3","u4ef7">>
r_jiage == <<"u4ef7","u683c">>
c_jiage    == <<"u4ef7","u683c">>
c_Category == <<"C","a","t","e","g","o","r","y">>
c_beizhu   == <<"u5907","u6ce8">>
None == <<>>

\* d.get(key) on an ordered dict held as a sequence of [k, v]
Get(d, key) ==
    IF \E i \in 1..Len(d) : d[i].k = key
    THEN d[CHOOSE i \in 1..Len(d) : d[i].k = key].v
    ELSE None

\* a or b
Or(a, b) == IF a # None THEN a ELSE b

\* the first element of a list, None when there is none
FirstOrNone(s) == IF s = <<>> THEN None ELSE s[1]

\* the pattern step of resolve_columns for one keyword
PatternMatch(keyword, available_columns) ==
    IF \E i \in 1..Len(KeywordPatterns) : KeywordPatterns[i].keyword = keyword
    THEN LET patterns == KeywordPatterns[CHOOSE i \in 1..Len(KeywordPatterns) :
                                            KeywordPatterns[i].keyword = keyword].patterns
         IN  FirstOrNone(SelectSeq(available_columns,
                                   LAMBDA col : AnyIn(patterns, Lower(col))))
    ELSE None

\* a plausible slip: the type step without `and col in available_columns`
TypeMatchUnchecked(keyword, available_columns, column_types) ==
    IF \E i \in 1..Len(TypeMapping) : TypeMapping[i].keyword = keyword
    THEN LET target_type == TypeMapping[CHOOSE i \in 1..Len(TypeMapping) :
                                           TypeMapping[i].keyword = keyword].type
         IN  FirstOrNone(ColsOfType(column_types, target_type))
    ELSE None

\* the type step
TypeMatch(keyword, available_columns, column_types) ==
    IF \E i \in 1..Len(TypeMapping) : TypeMapping[i].keyword = keyword
    THEN LET target_type == TypeMapping[CHOOSE i \in 1..Len(TypeMapping) :
                                           TypeMapping[i].keyword = keyword].type
         IN  FirstOrNone(SelectSeq(ColsOfType(column_types, target_type),
                                   LAMBDA col : col \in Range(available_columns)))
    ELSE None

\* what one pass of the keyword loop stores under the keyword (None: nothing):
\* pattern, then type, then fuzzy match
ResolveOne(keyword, available_columns, column_types) ==
    With(PatternMatch(keyword, available_columns),
         LAMBDA by_pattern :
            IF by_pattern # None THEN by_pattern
            ELSE With(TypeMatch(keyword, available_columns, column_types),
                      LAMBDA by_type :
                         IF by_type # None THEN by_type
                         ELSE FirstOrNone(fuzzy_match_cols(keyword, available_columns))))

\* the elements of s, each at its first place
RECURSIVE Dedup(_)
Dedup(s) ==
    IF s = <<>> THEN <<>>
    ELSE <<Head(s)>> \o Dedup(SelectSeq(Tail(s), LAMBDA x : x # Head(s)))

\* resolve_columns: the dict keyword -> column, in insertion order; a keyword
\* that resolves to nothing gets no entry
resolve_columns(keywords, available_columns, column_types) ==
    With(Dedup(keywords),
         LAMBDA keys :
            SelectSeq([i \in 1..Len(keys) |->
                          [k |-> keys[i],
                           v |-> ResolveOne(keys[i], available_columns, column_types)]],
                      LAMBDA item : item.v # None))

NoPlanTrend == [present |-> FALSE, date_col |-> None, freq |-> "", value_cols |-> <<>>]
NoPlanGrowth == [present |-> FALSE, date_col |-> None, value_col |-> None, growth_type |-> ""]
NoTextOps == [present |-> FALSE, text_col |-> None, keywords |-> FALSE, tokenizer |-> "", topk |-> 0]

ResolutionKeywords(intent) ==
    (IF intent.is_groupby THEN intent.mentioned_columns ELSE <<>>)
    \o (IF intent.is_trend \/ intent.growth.present THEN <<r_time, r_date>> ELSE <<>>)
    \o (IF intent.is_aggregation \/ intent.is_ranking
        THEN <<r_sales, r_value, r_amount, r_price, r_qingcangjia, r_jiage>> ELSE <<>>)
    \o (IF intent.is_text_analysis THEN <<r_text>> ELSE <<>>)

PlanFilters(intent, resolved_cols, columns) ==
    LET named == [i \in 1..Len(intent.filters) |->
                     [col |-> Or(Get(resolved_cols, intent.filters[i].column),
                                 intent.filters[i].column),
                      op |-> intent.filters[i].operator,
                      value |-> intent.filters[i].value]]
    IN  SelectSeq(named, LAMBDA f : f.col \in Range(columns))

PlanGroupby(intent, resolved_cols, columns) ==
    IF intent.is_groupby
    THEN LET cols == [i \in 1..Len(intent.mentioned_columns) |->
                         Get(resolved_cols, intent.mentioned_columns[i])]
         IN  SelectSeq(cols, LAMBDA col_name : col_name # None /\ col_name \in Range(columns))
    ELSE <<>>

RECURSIVE PlanAgg(_, _)
PlanAgg(aggregations, numeric_cols) ==
    IF aggregations = <<>> THEN <<>>
    ELSE [i \in 1..Min(3, Len(numeric_cols)) |->
             [col |-> numeric_cols[i], op |-> Head(aggregations).operation]]
         \o PlanAgg(Tail(aggregations), numeric_cols)

PlanSort(intent, resolved_cols, columns, types) ==
    IF intent.is_ranking
    THEN LET resolved == Or(Get(resolved_cols, r_value), Get(resolved_cols, r_sales))
             price_cols == SelectSeq(columns,
                              LAMBDA col : \/ IsSubstr(r_jiage, col)
                                           \/ IsSubstr(r_qingcangjia, col)
                                           \/ IsSubstr(r_price, Lower(col)))
             value_col == IF resolved # None THEN resolved
                          ELSE IF price_cols # <<>> THEN price_cols[1]
                          ELSE FirstOrNone(ColsOfType(types, "numeric"))
         IN  IF value_col # None
             THEN [i \in 1..Len(intent.sorts) |->
                      [col |-> value_col, order |-> intent.sorts[i].order]]
             ELSE <<>>
    ELSE <<>>

\* plan['trend']: a date column is enough, value_cols may stay empty
PlanTrend(intent, date_col, agg, numeric_cols) ==
    IF intent.is_trend /\ intent.trend.present /\ date_col # None
    THEN [present |-> TRUE, date_col |-> date_col,
          freq |-> intent.trend.frequency,
          value_cols |-> IF agg # <<>>
                         THEN [i \in 1..Len(agg) |-> agg[i].col]
                         ELSE SubSeq(numeric_cols, 1, Min(2, Len(numeric_cols)))]
    ELSE NoPlanTrend

\* a plausible slip: `if date_col or value_col`
PlanGrowthPartial(intent, date_col, value_col) ==
    IF intent.is_growth /\ intent.growth.present /\ (date_col # None \/ value_col # None)
    THEN [present |-> TRUE, date_col |-> date_col, value_col |-> value_col,
          growth_type |-> intent.growth.growth_type]
    ELSE NoPlanGrowth

\* plan['growth']: `if date_col and value_col`
PlanGrowth(intent, date_col, value_col) ==
    IF intent.is_growth /\ intent.growth.present /\ date_col # None /\ value_col # None
    THEN [present |-> TRUE, date_col |-> date_col, value_col |-> value_col,
          growth_type |-> intent.growth.growth_type]
    ELSE NoPlanGrowth

\* a plausible slip: the limit set outside the ranking block, ten rows by default
PlanLimitDefault(intent) ==
    IF intent.top_n.present /\ intent.top_n.value # 0 THEN intent.top_n
    ELSE SomeInt(DefaultTopN)

\* plan['limit']: `if intent.top_n:` inside `if intent.is_ranking:`; 0 is falsy
PlanLimit(intent) ==
    IF intent.is_ranking /\ intent.top_n.present /\ intent.top_n.value # 0
    THEN intent.top_n ELSE NoInt

\* the plan rewrite builds once the columns are resolved
PlanOf(intent, candidate, resolved_cols) ==
    LET columns == candidate.columns
        types == candidate.types
        agg == IF intent.is_aggregation
               THEN PlanAgg(intent.aggregations, ColsOfType(types, "numeric"))
               ELSE <<>>
        date_col == LET r == Or(Get(resolved_cols, r_date),
                                Get(resolved_cols, r_time))
                    IN  IF r # None THEN r ELSE FirstOrNone(ColsOfType(types, "date"))
        numeric_cols == ColsOfType(types, "numeric")
        value_col == LET r == Or(Get(resolved_cols, r_value), Get(resolved_cols, r_sales))
                     IN  IF r # None THEN r ELSE FirstOrNone(numeric_cols)
        text_col == LET r == Get(resolved_cols, r_text)
                    IN  IF r # None THEN r ELSE FirstOrNone(ColsOfType(types, "text"))
    IN  [file_name |-> candidate.file_name,
         sheet_name |-> candidate.sheet_name,
         filters |-> PlanFilters(intent, resolved_cols, columns),
         groupby |-> PlanGroupby(intent, resolved_cols, columns),
         agg |-> agg,
         trend |-> PlanTrend(intent, date_col, agg, numeric_cols),
         growth |-> PlanGrowth(intent, date_col, value_col),
         text_ops |-> IF intent.is_text_analysis /\ intent.text_analysis.present
                         /\ text_col # None
                      THEN [present |-> TRUE, text_col |-> text_col, keywords |-> TRUE,
                            tokenizer |-> IF intent.language = "zh" THEN "simple_zh"
                                          ELSE "simple_en",
                            topk |-> intent.text_analysis.topk]
                      ELSE NoTextOps,
         sort |-> PlanSort(intent, resolved_cols, columns, types),
         limit |-> PlanLimit(intent),
         viz |-> intent.preferred_viz]

\* QueryRewriter.rewrite
rewrite(intent, candidate) ==
    With(resolve_columns(ResolutionKeywords(intent), candidate.columns, candidate.types),
         LAMBDA resolved_cols : PlanOf(intent, candidate, resolved_cols))

NoPlan ==
    [file_name |-> "", sheet_name |-> "", filters |-> <<>>, groupby |-> <<>>, agg |-> <<>>,
     trend |-> NoPlanTrend, growth |-> NoPlanGrowth, text_ops |-> NoTextOps,
     sort |-> <<>>, limit |-> NoInt, viz |-> "table"]

(***************************************************************************)
(* CodeGenerator.generate  (services/codegen/generator.py)                 *)
(***************************************************************************)
\* the set expected_cols that generate collects from the plan
expected_cols(p) ==
    (IF p.filters # <<>> THEN {p.filters[i].col : i \in 1..Len(p.filters)} ELSE {})
    \cup (IF p.groupby # <<>> THEN Range(p.groupby) ELSE {})
    \cup (IF p.agg # <<>> THEN {p.agg[i].col : i \in 1..Len(p.agg)} ELSE {})
    \cup (IF p.trend.present THEN {p.trend.date_col} \cup Range(p.trend.value_cols) ELSE {})
    \cup (IF p.sort # <<>> THEN {p.sort[i].col : i \in 1..Len(p.sort)} ELSE {})
    \cup (IF p.text_ops.present THEN {p.text_ops.text_col} ELSE {})

NoGenerate == [done |-> FALSE, raised |-> "none", expected_cols |-> {}]

\* generate: without an LLM it raises, else the code comes from the LLM and
\* the expected columns from the plan
generate(p, use_llm) ==
    IF ~use_llm
    THEN [done |-> TRUE, raised |-> "ValueError", expected_cols |-> {}]
    ELSE [done |-> TRUE, raised |-> "none", expected_cols |-> expected_cols(p)]

(***************************************************************************)
(* The state of a component that a specification leaves alone              *)
(***************************************************************************)
LinIdle ==
    /\ lin_pc = "idle"
    /\ lin_args = [original_columns |-> <<>>, expected_columns |-> <<>>,
                   ast_columns |-> {}, columns_map |-> NoMap]
    /\ lineage = NoLineage

ParIdle ==
    /\ par_calls = <<>>
    /\ par_log = <<>>
    /\ par_defaults = IntentClassDefaults

RetIdle ==
    /\ kb_files = NoFiles
    /\ rag_retriever = NoRetriever
    /\ ret_raised = "none"
    /\ srch_args = [summaries |-> <<>>, dist |-> <<>>, question |-> <<>>, top_k |-> 0,
                    allow_files |-> NoMap, disallow_files |-> NoMap]
    /\ srch_out = [done |-> FALSE, result |-> <<>>]

QsIdle ==
    /\ qs_pc = "end"
    /\ qs_events = <<>>
    /\ qs_candidates = "unset"

IngIdle ==
    /\ ing_pc = 0
    /\ ing_summaries = <<>>
    /\ ing_processed = {}
    /\ ld_pc = 0
    /\ ld_files = NoFiles

RewIdle ==
    /\ rew_pc = "idle"
    /\ rew_args = [intent |-> NewIntent(<<>>, "en", IntentClassDefaults),
                   candidate |-> [file_name |-> "", sheet_name |-> "", columns |-> <<>>,
                                  types |-> <<>>]]
    /\ rew_resolved = <<>>
    /\ plan = NoPlan
    /\ gen_out = NoGenerate

NoExtract ==
    [raised |-> "none", ast_cols |-> {}, regex_cols |-> {}, all_detected_cols |-> {},
     lineage |-> NoLineage]

ExtIdle ==
    /\ ext_pc = "idle"
    /\ ext_args = [code |-> <<>>, original_columns |-> <<>>, expected_columns |-> <<>>]
    /\ ext_out = NoExtract

(***************************************************************************)
(* Specification of the lineage merge: one call on bounded arguments       *)
(***************************************************************************)
\* bounds of the lineage inputs
MaxOriginalCols == 3
MaxExpectedCols == 2

LinOriginals == DistinctSeqs({c_diqu, c_xiaoshoue, c_riqi, c_chanpin, c_region}, MaxOriginalCols)
LinExpected  == SeqsUpTo({c_diqu, c_xiaoshoue, c_region, c_sales}, MaxExpectedCols)
LinAst       == SUBSET {c_diqu, c_xiaoshoue, c_riqi, c_region}
LinMaps ==
    { NoMap,
      DictOf(<<>>),
      DictOf(<<[k |-> c_diqu, v |-> c_region], [k |-> c_xiaoshoue, v |-> c_sales]>>),
      DictOf(<<[k |-> c_diqu, v |-> c_region]>>) }

InitLineage ==
    /\ lin_pc = "call"
    /\ lin_args \in [original_columns : LinOriginals, expected_columns : LinExpected,
                     ast_columns : LinAst, columns_map : LinMaps]
    /\ lineage = NoLineage
    /\ ParIdle
    /\ RetIdle
    /\ RewIdle
    /\ ExtIdle
    /\ IngIdle
    /\ QsIdle

MergeLineage ==
    /\ lin_pc = "call"
    /\ lineage' = merge_lineage(lin_args.original_columns, lin_args.expected_columns,
                                lin_args.ast_columns, lin_args.columns_map)
    /\ lin_pc' = "done"
    /\ UNCHANGED <<lin_args, par_vars, ret_vars, rew_vars, ext_vars, ing_vars, qs_vars>>

NextLineage == MergeLineage

SpecLineage == InitLineage /\ [][NextLineage]_vars

(***************************************************************************)
(* Specification of the parser: a client parses a question, optionally     *)
(* another one, and the first one again, on parser instances of its choice *)
(***************************************************************************)
\* question fragments
w_top     == <<"t","o","p">>
w_Top     == <<"T","o","p">>
w_5       == <<" ","5">>
w_2024    == <<" ","2","0","2","4">>
w_2023    == <<" ","2","0","2","3">>
w_since   == <<" ","s","i","n","c","e">>
w_hello   == <<" ","h","e","l","l","o">>
w_tongbi  == <<"u540c","u6bd4">>                 \* U+540C U+6BD4 "year over year"
w_zengzhang == <<"u589e","u957f">>               \* U+589E U+957F "growth"
w_gediqu  == <<"u5404","u5730","u533a">>         \* U+5404 U+5730 U+533A "each region"
w_zonghe  == <<"u603b","u548c">>                 \* U+603B U+548C "total"
w_zuigao  == <<"u6700","u9ad8">>                 \* U+6700 U+9AD8 "highest"
w_qushi   == <<"u8d8b","u52bf">>                 \* U+8D8B U+52BF "trend"
w_pinglun == <<"u8bc4","u8bba">>                 \* U+8BC4 U+8BBA "comment"
w_de      == <<"u7684">>                         \* U+7684 (particle, no keyword)

QWords == {w_top, w_Top, w_5, w_2024, w_2023, w_since, w_hello, w_tongbi, w_zengzhang,
           w_gediqu, w_zonghe, w_zuigao, w_qushi, w_pinglun, w_de}

MaxWords == 2

RECURSIVE Concat(_)
Concat(ws) == IF ws = <<>> THEN <<>> ELSE Head(ws) \o Concat(Tail(ws))

\* the questions of tests/test_intent_parser.py, and a ranking question that
\* names the year before the count
t_rank_cn == <<"u663e","u793a","u9500","u552e","u989d","u524d","1","0","u540d","u7684","u5730","u533a">>
t_rank_en == <<"S","h","o","w"," ","t","o","p"," ","5"," ","S","K","U","s"," ","b","y"," ","c","l","e","a","r","a","n","c","e"," ","d","i","s","c","o","u","n","t"," ","v","s"," ","M","S","R","P"," ","i","n"," ","2","0","2","4">>
t_rank_year == <<"2","0","2","4","u5e74","u9500","u552e","u989d","u524d","1","0","u540d">>
t_growth_cn == <<"u5206","u6790","u9500","u552e","u989d","u540c","u6bd4","u589e","u957f">>
t_agg_cn == <<"u6c42","u5404","u5730","u533a","u9500","u552e","u989d","u603b","u548c">>
t_agg_en == <<"S","h","o","w"," ","t","o","t","a","l"," ","s","a","l","e","s"," ","b","y"," ","r","e","g","i","o","n">>
\* questions with a superlative, a year before 2000 and three years
t_highest_en == <<"h","i","g","h","e","s","t"," ","p","r","i","c","e">>
t_lowest_en == <<"l","o","w","e","s","t"," ","p","r","i","c","e">>
t_lowest_cn == <<"u6700","u4f4e","u4ef7","u683c">>
t_high_low_cn == <<"u6700","u9ad8","u548c","u6700","u4f4e","u4ef7","u683c">>
t_bottom_en == <<"b","o","t","t","o","m"," ","3"," ","r","e","g","i","o","n","s">>
t_1999 == <<"1","9","9","9","u5e74","u9500","u552e","u989d">>
t_three_years == <<"2","0","2","3"," ","2","0","2","4"," ","2","0","2","5"," ","s","a","l","e","s">>
StatedQuestions == {t_rank_cn, t_rank_en, t_rank_year, t_growth_cn, t_agg_cn, t_agg_en,
                    t_highest_en, t_lowest_en, t_lowest_cn, t_high_low_cn, t_bottom_en,
                    t_1999, t_three_years}

Questions == {Concat(ws) : ws \in SeqsUpTo(QWords, MaxWords)} \cup StatedQuestions

\* questions parsed between the two parses of the same question
Interleaved == {w_gediqu \o w_zuigao \o w_2023 \o w_2024, w_top \o w_5 \o w_since \o w_2023}

Parsers == {1, 2}

InitParser ==
    /\ \E q \in Questions, p \in Parsers :
          \/ par_calls = <<[question |-> q, parser |-> 1], [question |-> q, parser |-> p]>>
          \/ \E m \in Interleaved :
                par_calls = <<[question |-> q, parser |-> 1], [question |-> m, parser |-> 1],
                              [question |-> q, parser |-> p]>>
    /\ par_log = <<>>
    /\ par_defaults = IntentClassDefaults
    /\ LinIdle
    /\ RetIdle
    /\ RewIdle
    /\ ExtIdle
    /\ IngIdle
    /\ QsIdle

\* one call of parser.parse(question)
ParseCall ==
    /\ Len(par_log) < Len(par_calls)
    /\ LET question == par_calls[Len(par_log) + 1].question
           intent == parse(question, par_defaults)
       IN  /\ par_log' = Append(par_log,
                               [raised |-> IF ParseRaises(question) THEN "ValidationError"
                                           ELSE "none",
                                intent |-> intent])
           /\ par_defaults' = DefaultsAfter(par_defaults, intent)
    /\ UNCHANGED <<par_calls, lin_vars, ret_vars, rew_vars, ext_vars, ing_vars, qs_vars>>

NextParser == ParseCall

SpecParser == InitParser /\ [][NextParser]_vars

(***************************************************************************)
(* Specification of the index and the retriever: ingest may build the      *)
(* index, get_rag_retriever creates the singleton, and one query selects   *)
(***************************************************************************)
c_product == <<"p","r","o","d","u","c","t","_","n","a","m","e">>
c_price   == <<"p","r","i","c","e">>

NoFilter == [given |-> FALSE, items |-> <<>>]
FilterOf(items) == [given |-> TRUE, items |-> items]

d_sales1 ==
    [file_name |-> "sales.xlsx", sheet_name |-> "Sheet1", row_count |-> 10, column_count |-> 3,
     columns |-> <<c_diqu, c_xiaoshoue, c_riqi>>,
     types |-> <<[k |-> c_diqu, v |-> "text"], [k |-> c_xiaoshoue, v |-> "numeric"],
                 [k |-> c_riqi, v |-> "date"]>>,
     date_range |-> dr_2022_2023]
d_sales2 ==
    [file_name |-> "sales.xlsx", sheet_name |-> "Sheet2", row_count |-> 4, column_count |-> 2,
     columns |-> <<c_region, c_sales>>,
     types |-> <<[k |-> c_region, v |-> "text"], [k |-> c_sales, v |-> "numeric"]>>,
     date_range |-> <<>>]
d_stock ==
    [file_name |-> "stock.xlsx", sheet_name |-> "Sheet1", row_count |-> 7, column_count |-> 3,
     columns |-> <<c_product, c_price, c_riqi>>,
     types |-> <<[k |-> c_product, v |-> "text"], [k |-> c_price, v |-> "numeric"],
                 [k |-> c_riqi, v |-> "date"]>>,
     date_range |-> dr_2024]

q_total_sales == <<"t","o","t","a","l"," ","s","a","l","e","s"," ","2","0","2","3">>
q_top_price   == <<"t","o","p"," ","5"," ","p","r","o","d","u","c","t"," ","p","r","i","c","e">>
q_hello       == <<"h","e","l","l","o">>
q_region_sales == <<"u5404","u5730","u533a","u9500","u552e","u989d">>
q_sales_2022  == <<"s","a","l","e","s"," ","2","0","2","2">>
q_trend       == <<"u5404","u5730","u533a","u9500","u552e","u989d","u8d8b","u52bf">>

\* bounds of the retriever inputs
MaxDocs == 2
MaxTopK == 2

\* cosine distances in halves: 0, 1/2 and 3/2
DistLevels == {0, 1, 3}

SearchSummaries == DistinctSeqs({d_sales1, d_sales2, d_stock}, MaxDocs)
SearchQuestions == {q_total_sales, q_top_price, q_hello, q_trend, q_region_sales, q_sales_2022}
SearchTopKs     == -1..MaxTopK
AllowOptions    == {NoFilter, FilterOf(<<>>), FilterOf(<<"sales.xlsx">>),
                    FilterOf(<<"stock.xlsx">>), FilterOf(<<"sales.xlsx", "stock.xlsx">>)}
DisallowOptions == {NoFilter, FilterOf(<<>>), FilterOf(<<"stock.xlsx">>)}

InitRetriever ==
    /\ kb_files = NoFiles
    /\ rag_retriever = NoRetriever
    /\ ret_raised = "none"
    /\ \E summaries \in SearchSummaries :
          srch_args \in [summaries : {summaries},
                         dist : [1..Len(summaries) -> DistLevels],
                         question : SearchQuestions,
                         top_k : SearchTopKs,
                         allow_files : AllowOptions,
                         disallow_files : DisallowOptions]
    /\ srch_out = [done |-> FALSE, result |-> <<>>]
    /\ LinIdle
    /\ ParIdle
    /\ RewIdle
    /\ ExtIdle
    /\ IngIdle
    /\ QsIdle

\* POST /api/ingest reaches indexer.build_index(summaries)
BuildIndex ==
    /\ ~kb_files.doc_embeddings.present
    /\ kb_files' = build_index(srch_args.summaries)
    /\ UNCHANGED <<rag_retriever, ret_raised, srch_args, srch_out, lin_vars, par_vars, rew_vars, ext_vars, ing_vars, qs_vars>>

\* get_rag_retriever(): the first call constructs the singleton
GetRetriever ==
    /\ ~rag_retriever.created
    /\ ret_raised = "none"
    /\ LET loaded == LoadIndex(kb_files)
       IN  /\ rag_retriever' = loaded.retriever
           /\ ret_raised' = loaded.raised
    /\ UNCHANGED <<kb_files, srch_args, srch_out, lin_vars, par_vars, rew_vars, ext_vars, ing_vars, qs_vars>>

\* the query pipeline parses the question and calls file_selector.select
Select ==
    /\ rag_retriever.created
    /\ ~srch_out.done
    /\ srch_out' = [done |-> TRUE,
                    result |-> select(rag_retriever, parse(srch_args.question, IntentClassDefaults),
                                      srch_args.top_k, srch_args.allow_files,
                                      srch_args.disallow_files, srch_args.dist)]
    /\ UNCHANGED <<kb_files, rag_retriever, ret_raised, srch_args, lin_vars, par_vars, rew_vars, ext_vars, ing_vars, qs_vars>>

NextRetriever == BuildIndex \/ GetRetriever \/ Select

SpecRetriever == InitRetriever /\ [][NextRetriever]_vars

(***************************************************************************)
(* Specification of the lineage step of query_stream_generator             *)
(* (routers/query.py, step 9): both extractors run on the generated code   *)
(* and their union is handed to merge_lineage                              *)
(***************************************************************************)
c_qty == <<"q","t","y">>

\* total = df['\u9500\u552e\u989d'].sum()
st_sum ==
    [source |-> <<"t","o","t","a","l"," ","="," ","d","f","[","'","u9500","u552e","u989d","'","]",".","s","u","m","(",")">>,
     ok |-> TRUE,
     nodes |-> << Call(Attribute("sum"), <<>>),
                  Subscript(Const(<<"u9500","u552e","u989d">>)) >>]

\* g = df.groupby(['\u5730\u533a', '\u65e5\u671f']).agg({'\u9500\u552e\u989d': 'sum'})
st_groupby_agg ==
    [source |-> <<"g"," ","="," ","d","f",".","g","r","o","u","p","b","y","(","[","'","u5730","u533a","'",","," ","'","u65e5","u671f","'","]",")",".","a","g","g","(","{","'","u9500","u552e","u989d","'",":"," ","'","s","u","m","'","}",")">>,
     ok |-> TRUE,
     nodes |-> << Call(Attribute("agg"), <<Dict(<<Const(<<"u9500","u552e","u989d">>)>>)>>),
                  Call(Attribute("groupby"), <<List(<<Const(<<"u5730","u533a">>), Const(<<"u65e5","u671f">>)>>)>>) >>]

\* result = df[df['\u65e5\u671f'] >= '2023-01-01']
st_filter ==
    [source |-> <<"r","e","s","u","l","t"," ","="," ","d","f","[","d","f","[","'","u65e5","u671f","'","]"," ",">","="," ","'","2","0","2","3","-","0","1","-","0","1","'","]">>,
     ok |-> TRUE,
     nodes |-> << Subscript(Other("Compare")),
                  Subscript(Const(<<"u65e5","u671f">>)) >>]

\* sub = df[['qty', 'price']]
st_list ==
    [source |-> <<"s","u","b"," ","="," ","d","f","[","[","'","q","t","y","'",","," ","'","p","r","i","c","e","'","]","]">>,
     ok |-> TRUE,
     nodes |-> << Subscript(List(<<Const(<<"q","t","y">>), Const(<<"p","r","i","c","e">>)>>)) >>]

\* df = df.sort_values('price')
st_sort ==
    [source |-> <<"d","f"," ","="," ","d","f",".","s","o","r","t","_","v","a","l","u","e","s","(","'","p","r","i","c","e","'",")">>,
     ok |-> TRUE,
     nodes |-> << Call(Attribute("sort_values"), <<Const(<<"p","r","i","c","e">>)>>) >>]

\* df = df.sort_values(by='price')
st_sort_by ==
    [source |-> <<"d","f"," ","="," ","d","f",".","s","o","r","t","_","v","a","l","u","e","s","(","b","y","=","'","p","r","i","c","e","'",")">>,
     ok |-> TRUE,
     nodes |-> << Call(Attribute("sort_values"), <<>>) >>]

\* p = df['%'].mean()
st_pct ==
    [source |-> <<"p"," ","="," ","d","f","[","'","%","'","]",".","m","e","a","n","(",")">>,
     ok |-> TRUE,
     nodes |-> << Call(Attribute("mean"), <<>>),
                  Subscript(Const(<<"%">>)) >>]

\* df = df.drop(0).dropna()
st_drop ==
    [source |-> <<"d","f"," ","="," ","d","f",".","d","r","o","p","(","0",")",".","d","r","o","p","n","a","(",")">>,
     ok |-> TRUE,
     nodes |-> << Call(Attribute("dropna"), <<>>),
                  Call(Attribute("drop"), <<NonStr>>) >>]

\* f = df.fillna('none')
st_fillna ==
    [source |-> <<"f"," ","="," ","d","f",".","f","i","l","l","n","a","(","'","n","o","n","e","'",")">>,
     ok |-> TRUE,
     nodes |-> << Call(Attribute("fillna"), <<Const(<<"n","o","n","e">>)>>) >>]

\* t = row['x'] + row['name']
st_row ==
    [source |-> <<"t"," ","="," ","r","o","w","[","'","x","'","]"," ","+"," ","r","o","w","[","'","n","a","m","e","'","]">>,
     ok |-> TRUE,
     nodes |-> << Subscript(Const(<<"x">>)),
                  Subscript(Const(<<"n","a","m","e">>)) >>]

\* result['y'] = grouped['x']
st_result ==
    [source |-> <<"r","e","s","u","l","t","[","'","y","'","]"," ","="," ","g","r","o","u","p","e","d","[","'","x","'","]">>,
     ok |-> TRUE,
     nodes |-> << Subscript(Const(<<"y">>)),
                  Subscript(Const(<<"x">>)) >>]

\* print(groupby('qty'))
st_print ==
    [source |-> <<"p","r","i","n","t","(","g","r","o","u","p","b","y","(","'","q","t","y","'",")",")">>,
     ok |-> TRUE,
     nodes |-> << Call(Func("Name"), <<Other("Call")>>),
                  Call(Func("Name"), <<Const(<<"q","t","y">>)>>) >>]

\* total = df['qty'].sum(
st_broken ==
    [source |-> <<"t","o","t","a","l"," ","="," ","d","f","[","'","q","t","y","'","]",".","s","u","m","(">>,
     ok |-> FALSE,
     nodes |-> <<>>]

\* bound of the generated code: the number of statements
MaxStmts == 2

Statements ==
    {st_sum, st_groupby_agg, st_filter, st_list, st_sort, st_sort_by, st_pct, st_drop,
     st_fillna, st_row, st_result, st_print, st_broken}

ExtCodes     == SeqsUpTo(Statements, MaxStmts)
ExtOriginals == {<<c_diqu, c_xiaoshoue, c_riqi>>, <<c_qty, c_price>>, <<c_xiaoshoue, c_qty>>}
ExtExpected  == {<<>>, <<c_xiaoshoue>>}

InitExtract ==
    /\ ext_pc = "call"
    /\ ext_args \in [code : ExtCodes, original_columns : ExtOriginals,
                     expected_columns : ExtExpected]
    /\ ext_out = NoExtract
    /\ LinIdle
    /\ ParIdle
    /\ RetIdle
    /\ RewIdle
    /\ IngIdle
    /\ QsIdle

\* ast_cols | regex_cols, then merge_lineage with columns_map=None; an
\* exception of an extractor would end the generator before the merge
ComputeLineage ==
    /\ ext_pc = "call"
    /\ LET ast == extract_columns_from_ast(ext_args.code)
           regex_cols == extract_columns_from_code_regex(ext_args.code)
           all_detected_cols == ast.columns \cup regex_cols
       IN  IF ast.raised # "none"
           THEN /\ ext_pc' = "failed"
                /\ ext_out' = [NoExtract EXCEPT !.raised = ast.raised]
           ELSE /\ ext_pc' = "done"
                /\ ext_out' = [raised |-> "none",
                               ast_cols |-> ast.columns,
                               regex_cols |-> regex_cols,
                               all_detected_cols |-> all_detected_cols,
                               lineage |-> merge_lineage(ext_args.original_columns,
                                                         ext_args.expected_columns,
                                                         all_detected_cols, NoMap)]
    /\ UNCHANGED <<ext_args, lin_vars, par_vars, ret_vars, rew_vars, ing_vars, qs_vars>>

NextExtract == ComputeLineage

SpecExtract == InitExtract /\ [][NextExtract]_vars

(***************************************************************************)
(* Specification of the plan compiler: one rewrite of a parsed question    *)
(* against a candidate whose columns and types are supplied independently  *)
(***************************************************************************)
rq_group_sum == <<"u5404","u5730","u533a","u9500","u552e","u989d","u603b","u548c">>
rq_trend == <<"u6708","u9500","u552e","u8d8b","u52bf">>
rq_growth == <<"2","0","2","3"," ","u540c","u6bd4","u589e","u957f">>
rq_top_price == <<"t","o","p"," ","5"," ","p","r","i","c","e">>
rq_comment == <<"u8bc4","u8bba","u5173","u952e","u8bcd">>
rq_since == <<"s","i","n","c","e"," ","2","0","2","3"," ","s","a","l","e","s">>
rq_hello == <<"h","e","l","l","o">>
rq_category_max == <<"c","a","t","e","g","o","r","y"," ","h","i","g","h","e","s","t">>
rq_top0 == <<"t","o","p"," ","0"," ","s","a","l","e","s">>
rq_trend_yoy == <<"u6708","u8d8b","u52bf","u540c","u6bd4">>
rq_lowest == <<"u6700","u4f4e","u4ef7","u683c","u7684","u4ea7","u54c1">>

\* bounds of the candidate
MaxPlanCols == 2
MaxTypes == 2

ColumnTypes == {"numeric", "categorical", "date", "text"}

RewQuestions == {rq_group_sum, rq_trend, rq_growth, rq_top_price, rq_comment, rq_since,
                 rq_hello, rq_category_max, rq_lowest, rq_top0,
                 rq_trend_yoy}
RewColumns == DistinctSeqs({c_diqu, c_xiaoshoue, c_riqi, c_price, c_Category, c_jiage},
                           MaxPlanCols)
\* ordered dicts column -> type with distinct keys
RewTypes ==
    {t \in SeqsUpTo([k : {c_xiaoshoue, c_riqi, c_beizhu}, v : ColumnTypes], MaxTypes) :
        \A i, j \in 1..Len(t) : i # j => t[i].k # t[j].k}

InitRewrite ==
    /\ rew_pc = "call"
    /\ rew_args \in [intent : {parse(q, IntentClassDefaults) : q \in RewQuestions},
                     candidate : [file_name : {"sales.xlsx"}, sheet_name : {"Sheet1"},
                                  columns : RewColumns, types : RewTypes]]
    /\ rew_resolved = <<>>
    /\ plan = NoPlan
    /\ gen_out = NoGenerate
    /\ LinIdle
    /\ ParIdle
    /\ RetIdle
    /\ ExtIdle
    /\ IngIdle
    /\ QsIdle

\* the query pipeline: intent = parser.parse(question), then
\* plan = rewriter.rewrite(intent, candidate)
Rewrite ==
    /\ rew_pc = "call"
    /\ rew_resolved' = resolve_columns(ResolutionKeywords(rew_args.intent),
                                       rew_args.candidate.columns, rew_args.candidate.types)
    /\ plan' = rewrite(rew_args.intent, rew_args.candidate)
    /\ rew_pc' = "done"
    /\ UNCHANGED <<gen_out, rew_args, lin_vars, par_vars, ret_vars, ext_vars, ing_vars, qs_vars>>

\* step 5 of the query pipeline: code_generator.generate(plan, ...)
Generate ==
    /\ rew_pc = "done"
    /\ ~gen_out.done
    /\ \E use_llm \in BOOLEAN : gen_out' = generate(plan, use_llm)
    /\ UNCHANGED <<rew_pc, rew_args, rew_resolved, plan, lin_vars, par_vars, ret_vars, ext_vars, ing_vars, qs_vars>>

NextRewrite == Rewrite

NextGenerate == Rewrite \/ Generate

\* the same questions and candidates, followed through code generation
SpecGenerate == InitRewrite /\ [][NextGenerate]_vars

SpecRewrite == InitRewrite /\ [][NextRewrite]_vars

(***************************************************************************)
(* Claims about merge_lineage, checked under SpecLineage                   *)
(***************************************************************************)
RECURSIVE IsSubsequence(_, _)
IsSubsequence(a, b) ==
    IF a = <<>> THEN TRUE
    ELSE IF b = <<>> THEN FALSE
    ELSE IF Head(a) = Head(b) THEN IsSubsequence(Tail(a), Tail(b))
    ELSE IsSubsequence(a, Tail(b))

LinUnion == Range(lin_args.expected_columns) \cup lin_args.ast_columns

\* the original columns whose normalized name was expected or discovered
LinMappedHits ==
    LET m == lin_args.columns_map.items
    IN  {col \in Range(lin_args.original_columns) :
            \E i \in 1..Len(m) : m[i].k = col /\ m[i].v \in LinUnion}

\* C2: with a rename mapping and expected/discovered columns in normalized
\* names, every original column whose normalized name is expected or
\* discovered is in used_columns, and `mapping` is non-empty when one exists.
C2_MappedBackBeforeFiltering ==
    (/\ lin_pc = "done"
     /\ Truthy(lin_args.columns_map)
     /\ LinUnion \subseteq {lin_args.columns_map.items[i].v :
                               i \in 1..Len(lin_args.columns_map.items)})
    => /\ LinMappedHits \subseteq Range(lineage.used_columns)
       /\ (LinMappedHits # {} => lineage.mapping # <<>>)

\* C3: with no rename mapping, used_columns is original_columns restricted to
\* expected \cup discovered: every original column of the union, no column
\* outside original_columns, in the order of original_columns.
C3_UsedIsOriginalRestricted ==
    (lin_pc = "done" /\ ~Truthy(lin_args.columns_map))
    => /\ lineage.raised = "none"
       /\ Range(lineage.used_columns) = Range(lin_args.original_columns) \cap LinUnion
       /\ IsSubsequence(lineage.used_columns, lin_args.original_columns)
       /\ NoDup(lineage.used_columns)

C3_Witness ==
    /\ lin_pc = "done"
    /\ ~lin_args.columns_map.given
    /\ lin_args.original_columns = <<c_diqu, c_xiaoshoue, c_riqi>>
    /\ lin_args.expected_columns = <<c_xiaoshoue, c_diqu>>
    /\ lin_args.ast_columns = {c_riqi, c_region}
    /\ lineage.used_columns = <<c_diqu, c_xiaoshoue, c_riqi>>

\* C4: 0 <= column_count = |used_columns| <= original_column_count, coverage
\* is column_count / max(original_column_count, 1), so 0 <= coverage <= 1;
\* an empty original_columns gives coverage 0 and no division error.
C4_CoverageBounds ==
    lin_pc = "done"
    => /\ lineage.raised = "none"
       /\ lineage.column_count = Len(lineage.used_columns)
       /\ lineage.original_column_count = Len(lin_args.original_columns)
       /\ 0 <= lineage.column_count
       /\ lineage.column_count <= lineage.original_column_count
       /\ lineage.coverage.num = lineage.column_count
       /\ lineage.coverage.den = Max(lineage.original_column_count, 1)
       /\ 0 <= lineage.coverage.num /\ lineage.coverage.num <= lineage.coverage.den
       /\ (lin_args.original_columns = <<>> => lineage.coverage.num = 0)

C4_Witness ==
    /\ lin_pc = "done"
    /\ lin_args.original_columns = <<>>
    /\ lin_args.ast_columns # {}
    /\ lineage.raised = "none"
    /\ lineage.coverage = [num |-> 0, den |-> 1]

(***************************************************************************)
(* Claims about QueryRewriter.rewrite, checked under SpecRewrite           *)
(***************************************************************************)
\* every column name that appears in a plan
PlanColumns(p) ==
    {p.filters[i].col : i \in 1..Len(p.filters)}
    \cup Range(p.groupby)
    \cup {p.agg[i].col : i \in 1..Len(p.agg)}
    \cup (IF p.trend.present THEN {p.trend.date_col} \cup Range(p.trend.value_cols) ELSE {})
    \cup (IF p.growth.present THEN {p.growth.date_col, p.growth.value_col} ELSE {})
    \cup (IF p.text_ops.present THEN {p.text_ops.text_col} ELSE {})
    \cup {p.sort[i].col : i \in 1..Len(p.sort)}

\* C1: every column name that appears anywhere in the returned Plan (filters,
\* groupby, agg, trend, growth, text_ops, sort) is a member of candidate['columns']
C1_PlanColumnsExist ==
    rew_pc = "done" => PlanColumns(plan) \subseteq Range(rew_args.candidate.columns)

(***************************************************************************)
(* Claims about the index and the retriever, checked under SpecRetriever   *)
(***************************************************************************)
ResultFiles == {srch_out.result[i].file_name : i \in 1..Len(srch_out.result)}
IndexFiles  == {rag_retriever.doc_metadata[i].file_name : i \in 1..Len(rag_retriever.doc_metadata)}

\* C5: with allow_files a one-element list [f], every candidate returned has
\* file_name = f (or nothing is returned)
C5_SingletonAllowOnlyThatFile ==
    (srch_out.done /\ srch_args.allow_files.given /\ Len(srch_args.allow_files.items) = 1)
        => ResultFiles \subseteq {srch_args.allow_files.items[1]}

\* a search with a one-element allow list over an index that also holds another
\* file, not removed by disallow_files, returned the allowed file's sheets
C5_Witness ==
    /\ srch_out.done
    /\ srch_args.allow_files.given /\ Len(srch_args.allow_files.items) = 1
    /\ ~Truthy(srch_args.disallow_files)
    /\ srch_args.top_k >= Len(rag_retriever.doc_metadata)
    /\ srch_out.result # <<>>
    /\ \E f \in IndexFiles : f # srch_args.allow_files.items[1]

\* C6: whenever allow_files and/or disallow_files is supplied, as a list of any
\* length, no candidate returned is absent from the supplied allow_files or
\* present in the supplied disallow_files
C6_FilteredNeverReturned ==
    srch_out.done =>
        /\ srch_args.allow_files.given => ResultFiles \subseteq Range(srch_args.allow_files.items)
        /\ srch_args.disallow_files.given =>
              ResultFiles \cap Range(srch_args.disallow_files.items) = {}

\* C7: an empty index (no index files, or an index built from zero summaries)
\* makes the query return the empty sequence and raises no error
C7_EmptyIndexNoError ==
    (~kb_files.doc_embeddings.present \/ kb_files.doc_metadata.docs = <<>>)
        => /\ ret_raised = "none"
           /\ srch_out.done => srch_out.result = <<>>

\* C8: the sequence returned is ordered by non-increasing final score and has at
\* most min(top_k, index_size) elements (no element at all when that minimum is
\* below zero)
C8_SortedAndBounded ==
    srch_out.done =>
        /\ \A i \in 1..(Len(srch_out.result) - 1) :
              FGe(srch_out.result[i].score, srch_out.result[i + 1].score)
        /\ Len(srch_out.result) <= Max(0, Min(srch_args.top_k, Len(rag_retriever.doc_metadata)))

ParserKeywords ==
    UNION {Range(AGGREGATION_PATTERNS[i].patterns) : i \in 1..Len(AGGREGATION_PATTERNS)}
    \cup UNION {Range(GroupbyDimensions[i].patterns) : i \in 1..Len(GroupbyDimensions)}
    \cup UNION {Range(GROWTH_PATTERNS[i].patterns) : i \in 1..Len(GROWTH_PATTERNS)}
    \cup Range(TREND_PATTERNS) \cup Range(RANKING_PATTERNS)
    \cup Range(TEXT_PATTERNS) \cup Range(PRICE_PATTERNS)
    \cup {<<"u56fe">>, <<"u56fe","u8868">>, <<"c","h","a","r","t">>, <<"u6298","u7ebf">>, <<"u8d8b","u52bf">>, <<"l","i","n","e">>, <<"u67f1","u72b6">>,
          <<"u6761","u5f62">>, <<"b","a","r">>, <<"u997c","u56fe">>, <<"p","i","e">>, <<"u5360","u6bd4">>, <<"u6bd4","u4f8b">>, <<"p","r","o","p","o","r","t","i","o","n">>}

HasYearToken(question) ==
    \E i \in 1..(Len(question) - 3) :
        /\ question[i] = "2" /\ question[i + 1] = "0"
        /\ question[i + 2] \in Digits /\ question[i + 3] \in Digits

NoKeyword(question) ==
    /\ \A kw \in ParserKeywords : ~IsSubstr(kw, question)
    /\ ~HasYearToken(question)

\* C10: parse returns an Intent and raises nothing for every question, the
\* empty one included; for a question with no keyword and no year token all
\* flags are false, the lists are empty, the optional blocks are absent and
\* the preferred visualization is 'table'.
C10_NoKeywordAllDefaults ==
    \A i \in 1..Len(par_log) :
        LET question == par_calls[i].question
            intent == par_log[i].intent
        IN  /\ par_log[i].raised = "none"
            /\ intent.original_question = question
            /\ NoKeyword(question) =>
                  /\ ~intent.is_aggregation /\ ~intent.is_groupby /\ ~intent.is_trend
                  /\ ~intent.is_ranking /\ ~intent.is_growth
                  /\ ~intent.is_text_analysis /\ ~intent.is_price_analysis
                  /\ intent.filters = <<>> /\ intent.aggregations = <<>>
                  /\ intent.sorts = <<>> /\ intent.mentioned_columns = <<>>
                  /\ ~intent.trend.present /\ ~intent.growth.present
                  /\ ~intent.text_analysis.present /\ ~intent.top_n.present
                  /\ ~intent.date_range.present
                  /\ intent.preferred_viz = "table"

C10_Witness ==
    /\ Len(par_log) = 3
    /\ par_calls[1].question = w_hello \o w_de
    /\ NoKeyword(par_calls[1].question)
    /\ par_calls[2].question # par_calls[1].question
    /\ par_log[3].raised = "none"
    /\ par_log[3].intent.preferred_viz = "table"
    /\ par_log[3].intent.filters = <<>>

\* the counts written right after a ranking keyword, one space allowed between
StatedCounts(question) ==
    {IntOf(SubSeq(question, d, d + LeadingDigits(SubSeq(question, d, Len(question))) - 1)) :
        d \in {d \in 1..Len(question) :
                 /\ question[d] \in Digits
                 /\ \E k \in 1..Len(RANKING_PATTERNS) :
                       LET kw == RANKING_PATTERNS[k]
                       IN  \/ d > Len(kw) /\ SubSeq(question, d - Len(kw), d - 1) = kw
                           \/ /\ d > Len(kw) + 1 /\ question[d - 1] = " "
                              /\ SubSeq(question, d - Len(kw) - 1, d - 2) = kw}}

\* C11: a question with a ranking keyword gets is_ranking and top_n = the count
\* stated with the ranking keyword, whatever other numbers (a year) the question
\* holds; without any digit run top_n is 10.
C11_TopNIsStatedCount ==
    \A i \in 1..Len(par_log) :
        LET question == par_calls[i].question
            intent == par_log[i].intent
        IN  AnyIn(RANKING_PATTERNS, question) =>
               /\ intent.is_ranking
               /\ intent.top_n.present
               /\ \A n \in StatedCounts(question) :
                     StatedCounts(question) = {n} => intent.top_n.value = n
               /\ (\A c \in 1..Len(question) : question[c] \notin Digits)
                     => intent.top_n.value = DefaultTopN

\* C12: a question with a year-over-year keyword gets growth_type 'yoy' and one
\* with a month-over-month keyword gets 'mom', also when a general growth word
\* is in the question as well.
C12_SpecificGrowthTypeWins ==
    \A i \in 1..Len(par_log) :
        LET question == par_calls[i].question
            intent == par_log[i].intent
            has(t) == \E k \in 1..Len(GROWTH_PATTERNS) :
                         /\ GROWTH_PATTERNS[k].growth_type = t
                         /\ AnyIn(GROWTH_PATTERNS[k].patterns, question)
        IN  /\ (has("yoy") /\ ~has("mom")) =>
                  intent.is_growth /\ intent.growth.present /\ intent.growth.growth_type = "yoy"
            /\ (has("mom") /\ ~has("yoy")) =>
                  intent.is_growth /\ intent.growth.present /\ intent.growth.growth_type = "mom"

\* the operations of the aggregation table, in table order
AggregationOrder == <<"sum", "mean", "count", "max", "min">>

\* C13: aggregations holds exactly one entry per operation (sum, mean, count,
\* max, min) with a keyword in the question, in that order, each on the role
\* 'value'; is_aggregation tells whether there is any.
C13_OneEntryPerOperation ==
    \A i \in 1..Len(par_log) :
        LET question == par_calls[i].question
            intent == par_log[i].intent
            hit(op) == \E k \in 1..Len(AGGREGATION_PATTERNS) :
                          /\ AGGREGATION_PATTERNS[k].op = op
                          /\ \E kw \in Range(AGGREGATION_PATTERNS[k].patterns) :
                                IsSubstr(kw, question)
            expected == SelectSeq(AggregationOrder, hit)
        IN  /\ intent.is_aggregation = (expected # <<>>)
            /\ Len(intent.aggregations) = Len(expected)
            /\ \A k \in 1..Len(expected) :
                  /\ intent.aggregations[k].operation = expected[k]
                  /\ intent.aggregations[k].column = r_value

\* a question with keywords of two operations, one with none and the question of
\* test_parse_aggregation_cn have all been parsed
C13_Witness ==
    /\ Len(par_log) = 3
    /\ par_calls[1].question = w_zonghe \o w_zuigao
    /\ Len(par_log[1].intent.aggregations) = 2
    /\ par_log[1].intent.is_aggregation
    /\ par_calls[2].question = w_top \o w_5 \o w_since \o w_2023
    /\ ~par_log[2].intent.is_aggregation

(***************************************************************************)
(* Claims on the column extractors (SpecExtract)                           *)
(***************************************************************************)
ExtWalk == ast_parse(ext_args.code).walk

\* the string literals of a sequence of expressions
Literals(exprs) == {exprs[i].value : i \in {j \in 1..Len(exprs) : exprs[j].is_str}}

\* the string literals passed positionally to a call: directly, in a list
\* literal, or as a key of a dict literal
PositionalLiterals(node) ==
    Literals(node.args)
      \cup UNION {Literals(node.args[i].elts) \cup Literals(node.args[i].keys) :
                    i \in 1..Len(node.args)}

ListAndCallLiteralsReturned ==
    \A i \in 1..Len(ExtWalk) :
        LET node == ExtWalk[i]
        IN  /\ (node.type = "Subscript" /\ node.slice.type = "List")
                  => Literals(node.slice.elts) \subseteq ext_out.ast_cols
            /\ (node.type = "Call" /\ node.func.type = "Attribute"
                  /\ node.func.attr \in {"groupby", "sort_values", "drop", "dropna", "agg"})
                  => PositionalLiterals(node) \subseteq ext_out.ast_cols

ExampleColumnsReturned ==
    ({st_sum, st_groupby_agg} \subseteq Range(ext_args.code))
        => {c_xiaoshoue, c_diqu, c_riqi} \subseteq ext_out.ast_cols

\* C14 as stated: for code that parses, every string literal used as a
\* subscript key, every string element of a list subscript and every string
\* literal passed positionally to groupby, sort_values, drop, dropna or agg
\* is in the set extract_columns_from_ast returns.
C14_EveryLiteralReturned ==
    (ext_pc = "done" /\ ast_parse(ext_args.code).raised = "none") =>
        /\ \A i \in 1..Len(ExtWalk) :
              (ExtWalk[i].type = "Subscript" /\ ExtWalk[i].slice.is_str)
                  => ExtWalk[i].slice.value \in ext_out.ast_cols
        /\ ListAndCallLiteralsReturned
        /\ ExampleColumnsReturned

\* C14 amended: a string subscript key is returned when it is longer than
\* one character or is a single letter, digit or CJK character (a one-character
\* key such as '%' is not); list elements and positional call arguments are
\* returned as stated, and so are the three columns of the example.
C14_ReasonableLiteralsReturned ==
    (ext_pc = "done" /\ ast_parse(ext_args.code).raised = "none") =>
        /\ \A i \in 1..Len(ExtWalk) :
              (ExtWalk[i].type = "Subscript" /\ ExtWalk[i].slice.is_str)
                  => LET key == ExtWalk[i].slice.value
                     IN  (Len(key) > 1 \/ (Len(key) = 1 /\ IsAlnum(key)))
                             <=> key \in ext_out.ast_cols
        /\ ListAndCallLiteralsReturned
        /\ ExampleColumnsReturned

C14_Witness ==
    /\ ext_pc = "done"
    /\ ext_args.code = <<st_sum, st_groupby_agg>>
    /\ ext_out.ast_cols = {c_xiaoshoue, c_diqu, c_riqi}

\* the bracket literals of a text that follow a given prefix
BracketLiterals(text, prefix) ==
    LET starts == {a \in (3 + Len(prefix))..Len(text) :
                      /\ text[a - 1] \in Quotes
                      /\ text[a - 2] = "["
                      /\ SubSeq(text, a - 2 - Len(prefix), a - 3) = prefix}
    IN  UNION {{SubSeq(text, a, b) : b \in {c \in a..(Len(text) - 2) :
                                              /\ \A k \in a..c : text[k] \notin Quotes
                                              /\ text[c + 1] \in Quotes
                                              /\ text[c + 2] = "]"}} : a \in starts}

\* C15: when the code does not parse, extract_columns_from_ast returns the
\* empty set and raises nothing, extract_columns_from_code_regex still
\* returns what its bracket patterns match, the union handed to
\* merge_lineage contains those findings, and a lineage report is produced.
C15_SyntaxErrorDegrades ==
    (ext_pc # "call" /\ ast_parse(ext_args.code).raised = "SyntaxError") =>
        LET text == SourceOf(ext_args.code)
            known == BracketLiterals(text, <<"d","f">>)
                       \cup BracketLiterals(text, <<"r","e","s","u","l","t">>)
                       \cup BracketLiterals(text, <<"g","r","o","u","p","e","d">>)
            other == {m \in BracketLiterals(text, <<>>) :
                        Len(m) > 1 /\ m \notin {<<"x">>, <<"y">>, <<"n","a","m","e">>,
                                                <<"t","i","t","l","e">>, <<"t","e","x","t">>}}
        IN  /\ ext_pc = "done"
            /\ ext_out.raised = "none"
            /\ ext_out.ast_cols = {}
            /\ ext_out.regex_cols = known \cup other
            /\ (st_broken \in Range(ext_args.code)) => c_qty \in ext_out.regex_cols
            /\ ext_out.regex_cols \subseteq ext_out.all_detected_cols
            /\ ext_out.lineage.raised = "none"
            /\ ext_out.lineage.used_columns =
                  FilterIn(ext_args.original_columns,
                           Range(ext_args.expected_columns) \cup ext_out.regex_cols)

C15_Witness ==
    /\ ext_pc = "done"
    /\ ext_args.code = <<st_sum, st_broken>>
    /\ ext_args.original_columns = <<c_xiaoshoue, c_qty>>
    /\ ext_args.expected_columns = <<>>
    /\ ext_out.ast_cols = {}
    /\ ext_out.regex_cols = {c_xiaoshoue, c_qty}
    /\ ext_out.lineage.used_columns = <<c_xiaoshoue, c_qty>>

(***************************************************************************)
(* Claims about the plan blocks and resolve_columns, checked under         *)
(* SpecRewrite                                                             *)
(***************************************************************************)
RewIntent  == rew_args.intent
RewCols    == rew_args.candidate.columns
RewColTypes == rew_args.candidate.types

\* C16: every Intent filter whose role can be resolved by column-role
\* resolution (keyword, type or fuzzy tier) yields a Plan filter on the
\* resolved column with the same operator and value, a filter is dropped only
\* when its role cannot be resolved, and the original order is kept, whatever
\* the intent flags are.
C16_ResolvableFiltersKept ==
    rew_pc = "done" =>
        LET fs == RewIntent.filters
            on_column == [i \in 1..Len(fs) |->
                             [col |-> ResolveOne(fs[i].column, RewCols, RewColTypes),
                              op |-> fs[i].operator,
                              value |-> fs[i].value]]
        IN  plan.filters = SelectSeq(on_column, LAMBDA f : f.col # None)

\* the columns a role could be given by each tier
ByPattern(k) ==
    {c \in Range(RewCols) :
        \E i \in 1..Len(KeywordPatterns) :
            /\ KeywordPatterns[i].keyword = k
            /\ \E j \in 1..Len(KeywordPatterns[i].patterns) :
                  IsSubstr(KeywordPatterns[i].patterns[j], Lower(c))}

ByType(k) ==
    {c \in Range(RewCols) :
        \E i \in 1..Len(TypeMapping), j \in 1..Len(RewColTypes) :
            /\ TypeMapping[i].keyword = k
            /\ RewColTypes[j].k = c
            /\ RewColTypes[j].v = TypeMapping[i].type}

ByFuzzy(k) == {c \in Range(RewCols) : FGe(Ratio(c, k), Cutoff)}

Place(s, x) == CHOOSE i \in 1..Len(s) : s[i] = x /\ \A j \in 1..(i - 1) : s[j] # x

\* C17: resolve_columns resolves each role by the first tier that succeeds:
\* the first column of available_columns whose lowercased name contains a
\* keyword of the role, else the first column (in the order of the types
\* dict) of the role's type that is in available_columns, else the closest
\* name of similarity at least 0.6; a lower tier is not used when a higher one
\* matches, every resolved value is in available_columns, and a role that
\* clears no tier has no entry.
C17_FirstSucceedingTier ==
    rew_pc = "done" =>
        /\ \A k \in Range(ResolutionKeywords(RewIntent)) :
              LET v == Get(rew_resolved, k)
              IN  IF ByPattern(k) # {}
                  THEN /\ v \in ByPattern(k)
                       /\ \A c \in ByPattern(k) : Place(RewCols, v) <= Place(RewCols, c)
                  ELSE IF ByType(k) # {}
                  THEN /\ v \in ByType(k)
                       /\ \A c \in ByType(k) :
                             Place([j \in 1..Len(RewColTypes) |-> RewColTypes[j].k], v)
                               <= Place([j \in 1..Len(RewColTypes) |-> RewColTypes[j].k], c)
                  ELSE IF ByFuzzy(k) # {}
                  THEN /\ v \in ByFuzzy(k)
                       /\ \A c \in ByFuzzy(k) : FGe(Ratio(v, k), Ratio(c, k))
                  ELSE v = None
        /\ \A i \in 1..Len(rew_resolved) :
              /\ rew_resolved[i].v \in Range(RewCols)
              /\ rew_resolved[i].k \in Range(ResolutionKeywords(RewIntent))
              /\ \A j \in 1..Len(rew_resolved) : i # j => rew_resolved[i].k # rew_resolved[j].k

\* one call that used all three tiers and left a role unresolved
C17_Witness ==
    /\ rew_pc = "done"
    /\ \E kp, kt, kf, kn \in Range(ResolutionKeywords(RewIntent)) :
          /\ ByPattern(kp) # {} /\ Get(rew_resolved, kp) # None
          /\ ByPattern(kt) = {} /\ ByType(kt) # {} /\ Get(rew_resolved, kt) # None
          /\ ByPattern(kf) = {} /\ ByType(kf) = {} /\ Get(rew_resolved, kf) # None
          /\ Get(rew_resolved, kn) = None

\* C18: each Plan block is populated only under its intent flag: groupby under
\* is_groupby, agg under is_aggregation, trend under is_trend, growth under
\* is_growth, text_ops under is_text_analysis, sort and limit under is_ranking.
C18_BlocksUnderFlags ==
    rew_pc = "done" =>
        /\ plan.groupby # <<>> => RewIntent.is_groupby
        /\ plan.agg # <<>> => RewIntent.is_aggregation
        /\ plan.trend.present => RewIntent.is_trend
        /\ plan.growth.present => RewIntent.is_growth
        /\ plan.text_ops.present => RewIntent.is_text_analysis
        /\ (plan.sort # <<>> \/ plan.limit.present) => RewIntent.is_ranking

\* a ranking question gets its sort and limit and none of the other blocks,
\* although the candidate has numeric and date columns
C18_Witness ==
    /\ rew_pc = "done"
    /\ RewIntent.is_ranking /\ plan.sort # <<>> /\ plan.limit.present
    /\ ~RewIntent.is_aggregation /\ plan.agg = <<>>
    /\ ~RewIntent.is_trend /\ ~plan.trend.present
    /\ ~RewIntent.is_growth /\ ~plan.growth.present
    /\ ColsOfType(RewColTypes, "numeric") # <<>>
    /\ ColsOfType(RewColTypes, "date") # <<>>

\* the date and value column as the claim names them
DateColumn == Or(Or(Get(rew_resolved, r_date), Get(rew_resolved, r_time)),
                 FirstOrNone(ColsOfType(RewColTypes, "date")))
ValueColumn == Or(Or(Get(rew_resolved, r_value), Get(rew_resolved, r_sales)),
                  FirstOrNone(ColsOfType(RewColTypes, "numeric")))

\* C19: plan.growth is present exactly when is_growth holds and both a date
\* column (resolved 'date'/'time', else the first date-typed column) and a
\* value column (resolved 'value'/'sales', else the first numeric-typed
\* column) exist, and then names both; plan.trend is present as soon as a
\* date column is found, even with empty value_cols.
C19_GrowthAllOrNothing ==
    rew_pc = "done" =>
        /\ plan.growth.present <=>
              (RewIntent.is_growth /\ DateColumn # None /\ ValueColumn # None)
        /\ plan.growth.present =>
              (plan.growth.date_col = DateColumn /\ plan.growth.value_col = ValueColumn)
        /\ ~plan.growth.present =>
              (plan.growth.date_col = None /\ plan.growth.value_col = None)
        /\ plan.trend.present <=> (RewIntent.is_trend /\ DateColumn # None)
        /\ plan.trend.present => plan.trend.date_col = DateColumn

\* a trend and growth question on a candidate with a date column and no
\* value column: trend with empty value_cols, no growth block
C19_Witness ==
    /\ rew_pc = "done"
    /\ RewIntent.is_trend /\ RewIntent.is_growth
    /\ DateColumn # None /\ ValueColumn = None
    /\ plan.trend.present /\ plan.trend.value_cols = <<>>
    /\ ~plan.growth.present

\* C20: whenever is_ranking holds, plan.limit equals intent.top_n, for every
\* value of top_n parse can produce; when is_ranking is false the limit is
\* absent.
C20_LimitIsTopN ==
    rew_pc = "done" =>
        IF RewIntent.is_ranking
        THEN RewIntent.top_n.present /\ plan.limit = RewIntent.top_n
        ELSE ~plan.limit.present

(***************************************************************************)
(* Further claims about IntentParser.parse, checked under SpecParser       *)
(***************************************************************************)
HighestWords == {<<"u6700","u5927">>, <<"u6700","u9ad8">>, <<"u6700","u591a">>,
                 <<"h","i","g","h","e","s","t">>, <<"t","o","p">>}
LowestWords  == {<<"u6700","u5c0f">>, <<"u6700","u4f4e">>, <<"u6700","u5c11">>,
                 <<"l","o","w","e","s","t">>, <<"b","o","t","t","o","m">>}

\* C21: a question with a 'highest'-type keyword gets a descending sort entry
\* and a question with a 'lowest'-type keyword an ascending one, with or
\* without a number in the question.
C21_SortFromSuperlative ==
    \A i \in 1..Len(par_log) :
        LET question == par_calls[i].question
            sorts == par_log[i].intent.sorts
        IN  /\ (\E w \in HighestWords : IsSubstr(w, Lower(question)))
                  => \E j \in 1..Len(sorts) : sorts[j].order = "desc"
            /\ (\E w \in LowestWords : IsSubstr(w, Lower(question)))
                  => \E j \in 1..Len(sorts) : sorts[j].order = "asc"

\* where the 4-digit tokens of a question start: runs of exactly four digits
FourDigitStarts(question) ==
    {d \in 1..(Len(question) - 3) :
        /\ \A k \in d..(d + 3) : question[k] \in Digits
        /\ (d = 1 \/ question[d - 1] \notin Digits)
        /\ (d + 4 > Len(question) \/ question[d + 4] \notin Digits)}

\* C22: date_range is set iff the question holds a 4-digit year token; two or
\* more tokens give 1 January of the first to 31 December of the second, one
\* token gives that calendar year, or a start without end when '起' or
\* 'since' is present; each bound present gives one filter on role 'date'.
C22_DateRangeFromYearTokens ==
    \A i \in 1..Len(par_log) :
        LET question == par_calls[i].question
            intent == par_log[i].intent
            starts == FourDigitStarts(question)
            first == CHOOSE d \in starts : \A e \in starts : d <= e
            second == CHOOSE d \in starts \ {first} : \A e \in starts \ {first} : d <= e
            jan1(d) == SubSeq(question, d, d + 3) \o <<"-","0","1","-","0","1">>
            dec31(d) == SubSeq(question, d, d + 3) \o <<"-","1","2","-","3","1">>
            onward == IsSubstr(<<"u8d77">>, question) \/ IsSubstr(<<"s","i","n","c","e">>, question)
            from(d) == [column |-> r_date, operator |-> ">=", value |-> jan1(d)]
            to(d) == [column |-> r_date, operator |-> "<=", value |-> dec31(d)]
        IN  /\ intent.date_range.present <=> starts # {}
            /\ Cardinality(starts) >= 2 =>
                  /\ intent.date_range.start = jan1(first)
                  /\ intent.date_range.has_end /\ intent.date_range.end = dec31(second)
                  /\ intent.filters = <<from(first), to(second)>>
            /\ (Cardinality(starts) = 1 /\ onward) =>
                  /\ intent.date_range.start = jan1(first)
                  /\ ~intent.date_range.has_end
                  /\ intent.filters = <<from(first)>>
            /\ (Cardinality(starts) = 1 /\ ~onward) =>
                  /\ intent.date_range.start = jan1(first)
                  /\ intent.date_range.has_end /\ intent.date_range.end = dec31(first)
                  /\ intent.filters = <<from(first), to(first)>>
            /\ starts = {} => intent.filters = <<>>

\* C30: the flags of a returned Intent agree with its fields, and sorts is
\* non-empty only for a ranking intent, with at most one entry.
C30_FlagsMatchFields ==
    \A i \in 1..Len(par_log) :
        LET intent == par_log[i].intent
        IN  par_log[i].raised = "none" =>
               /\ intent.is_aggregation <=> intent.aggregations # <<>>
               /\ intent.is_groupby <=> intent.mentioned_columns # <<>>
               /\ intent.is_trend <=> intent.trend.present
               /\ intent.is_growth <=> intent.growth.present
               /\ intent.is_text_analysis <=> intent.text_analysis.present
               /\ intent.is_ranking <=> intent.top_n.present
               /\ intent.sorts # <<>> => intent.is_ranking
               /\ Len(intent.sorts) <= 1

\* a question with both kinds of superlative, parsed after a question that set
\* other flags, and a third parse of the first question
C30_Witness ==
    /\ Len(par_log) = 3
    /\ par_calls[1].question = t_high_low_cn
    /\ par_log[1].intent.is_ranking /\ Len(par_log[1].intent.sorts) = 1
    /\ par_log[1].intent.is_aggregation
    /\ ~par_log[1].intent.is_trend /\ ~par_log[1].intent.trend.present
    /\ par_log[2].intent.is_groupby /\ par_log[2].intent.mentioned_columns # <<>>
    /\ par_log[3].intent.sorts = par_log[1].intent.sorts

(***************************************************************************)
(* Further claims about RAGRetriever.search, checked under SpecRetriever   *)
(***************************************************************************)
\* the categories of the keyword table with a term in the question, and those
\* of them with a term in some column name
DetectedCategories(question) ==
    {i \in 1..Len(KeywordCategories) : AnyIn(KeywordCategories[i].terms, question)}

CoveredCategories(question, columns) ==
    {i \in DetectedCategories(question) :
        \E t \in 1..Len(KeywordCategories[i].terms), j \in 1..Len(columns) :
            IsSubstr(Lower(KeywordCategories[i].terms[t]), Lower(columns[j]))}

\* C23: the coverage of a candidate is the fraction of the categories detected
\* in the question that have a keyword of their list in some column name of
\* the candidate, 1/2 when no category is detected, and lies in [0, 1].
C23_CoverageByCategoryKeywords ==
    srch_out.done =>
        \A i \in 1..Len(srch_out.result) :
            LET c == srch_out.result[i]
                detected == Cardinality(DetectedCategories(srch_args.question))
                covered == Cardinality(CoveredCategories(srch_args.question, c.columns))
            IN  /\ c.coverage_score.num >= 0
                /\ c.coverage_score.num <= c.coverage_score.den
                /\ IF detected = 0
                   THEN 2 * c.coverage_score.num = c.coverage_score.den
                   ELSE c.coverage_score.num * detected = covered * c.coverage_score.den

\* C24: a candidate gets the date bonus (and the date-range note of its
\* rationale) exactly when a 4-digit year of the question occurs in its
\* recorded date_range, whatever the year is.
C24_DateBonusAnyYear ==
    srch_out.done =>
        \A i \in 1..Len(srch_out.result) :
            LET c == srch_out.result[i]
                question == srch_args.question
            IN  ("date_range" \in Range(c.rationale))
                  <=> \E d \in FourDigitStarts(question) :
                         IsSubstr(SubSeq(question, d, d + 3), c.date_range)

\* C27: a search made through the get_rag_retriever singleton once
\* build_index has completed returns what a retriever loaded from the
\* persisted index returns, also when the singleton was created before the
\* build.
C27_SearchReflectsBuiltIndex ==
    [][(~srch_out.done /\ srch_out'.done /\ kb_files.doc_embeddings.present
          /\ LoadIndex(kb_files).raised = "none")
         => srch_out'.result =
              select(LoadIndex(kb_files).retriever,
                     parse(srch_args.question, IntentClassDefaults),
                     srch_args.top_k, srch_args.allow_files,
                     srch_args.disallow_files, srch_args.dist)]_vars

(***************************************************************************)
(* SpecIngest: uploads rebuild the index while the retriever loads it      *)
(*                                                                         *)
(* upload_file is a coroutine and build_index never awaits, so uploads run *)
(* one after another on the event loop.  get_rag_retriever is a plain def  *)
(* dependency, which FastAPI runs on a worker thread, so _load_index can   *)
(* run between any two file writes of build_index.  A file is written and  *)
(* read as a whole.                                                        *)
(***************************************************************************)
\* the four index files, in the order build_index writes and _load_index reads them
IndexPaths == <<"doc_embeddings", "col_embeddings", "doc_metadata", "col_metadata">>

\* the workbooks a client uploads: the summaries of their non-empty sheets
Workbooks == {<<d_sales1, d_sales2>>, <<d_stock>>}

InitIngest ==
    /\ RetIdle
    /\ IngIdle
    /\ QsIdle
    /\ LinIdle
    /\ ParIdle
    /\ RewIdle
    /\ ExtIdle

\* upload_file up to its call of build_index: every sheet is reshaped,
\* summarised and saved under data/processed
Upload ==
    /\ ing_pc = 0
    /\ \E sheets \in Workbooks :
          /\ ing_summaries' = sheets
          /\ ing_processed' = ing_processed \cup
                {<<sheets[i].file_name, sheets[i].sheet_name>> : i \in 1..Len(sheets)}
    /\ ing_pc' = 1
    /\ UNCHANGED <<ld_pc, ld_files, ret_vars, lin_vars, par_vars, rew_vars, ext_vars, qs_vars>>

\* build_index: the np.save or json.dump of the next index file; after the
\* last one upload_file returns
WriteIndexFile ==
    /\ ing_pc \in 1..Len(IndexPaths)
    /\ kb_files' = [kb_files EXCEPT ![IndexPaths[ing_pc]] =
                                       build_index(ing_summaries)[IndexPaths[ing_pc]]]
    /\ ing_pc' = IF ing_pc = Len(IndexPaths) THEN 0 ELSE ing_pc + 1
    /\ UNCHANGED <<ing_summaries, ing_processed, ld_pc, ld_files,
                   rag_retriever, ret_raised, srch_args, srch_out, lin_vars, par_vars, rew_vars, ext_vars, qs_vars>>

\* get_rag_retriever without a singleton: RAGRetriever() enters _load_index,
\* which returns at once when doc_embeddings.npy does not exist
StartLoadIndex ==
    /\ ~rag_retriever.created
    /\ ld_pc = 0
    /\ IF ~kb_files.doc_embeddings.present
       THEN /\ rag_retriever' = LoadIndex(kb_files).retriever
            /\ ld_pc' = 0
       ELSE /\ ld_pc' = 1
            /\ UNCHANGED rag_retriever
    /\ ret_raised' = "none"
    /\ ld_files' = NoFiles
    /\ UNCHANGED <<kb_files, srch_args, srch_out, ing_pc, ing_summaries, ing_processed, lin_vars, par_vars, rew_vars, ext_vars, qs_vars>>

\* _load_index: the np.load or json.load of the next index file; a missing
\* file raises and leaves no singleton, the last read is followed by the fit
ReadIndexFile ==
    /\ ld_pc \in 1..Len(IndexPaths)
    /\ LET name == IndexPaths[ld_pc]
           read == [ld_files EXCEPT ![name] = kb_files[name]]
       IN  IF ~kb_files[name].present
           THEN /\ ret_raised' = "FileNotFoundError"
                /\ ld_pc' = 0
                /\ ld_files' = NoFiles
                /\ UNCHANGED rag_retriever
           ELSE IF ld_pc < Len(IndexPaths)
           THEN /\ ld_pc' = ld_pc + 1
                /\ ld_files' = read
                /\ UNCHANGED <<rag_retriever, ret_raised>>
           ELSE /\ rag_retriever' = LoadIndex(read).retriever
                /\ ret_raised' = LoadIndex(read).raised
                /\ ld_pc' = 0
                /\ ld_files' = read
    /\ UNCHANGED <<kb_files, srch_args, srch_out, ing_pc, ing_summaries, ing_processed, lin_vars, par_vars, rew_vars, ext_vars, qs_vars>>

NextIngest == Upload \/ WriteIndexFile \/ StartLoadIndex \/ ReadIndexFile

SpecIngest == InitIngest /\ [][NextIngest]_vars

\* C25: a retriever that has loaded an index holds the embeddings and the
\* metadata of one and the same build, so that every neighbour index
\* addresses an entry of its doc_metadata.
C25_LoadedIndexIsOneBuild ==
    (rag_retriever.created /\ rag_retriever.doc_nn.fitted) =>
        /\ \E sheets \in Workbooks :
              rag_retriever = LoadIndex(build_index(sheets)).retriever
        /\ rag_retriever.doc_nn.n_samples <= Len(rag_retriever.doc_metadata)

\* C28: once the uploads made so far have returned, the persisted index holds
\* exactly one DocRecord for every (file, sheet) pair they ingested.
C28_IndexHoldsEveryIngestedSheet ==
    ing_pc = 0 =>
        \A pair \in ing_processed :
            Cardinality({i \in 1..Len(kb_files.doc_metadata.docs) :
                            <<kb_files.doc_metadata.docs[i].file_name,
                              kb_files.doc_metadata.docs[i].sheet_name>> = pair}) = 1

(***************************************************************************)
(* SpecStream: the event stream of query_stream_generator                  *)
(*                                                                         *)
(* One action per stretch of the generator between two stage events.  What *)
(* the services return is chosen freely: a call may raise, select may find *)
(* no candidate, the clean workbook may be missing, the prompt, the        *)
(* pseudocode, stdout or stderr may be empty, the execution may fail.      *)
(***************************************************************************)
Emit(events, next) ==
    /\ qs_events' = qs_events \o events
    /\ qs_pc' = next

\* the except clause of the generator: one error event, then the end
Raise(events) == Emit(events \o <<"error">>, "end")

\* the two ways out of `if not candidates`
AfterSelectContinues(candidates) ==
    IF candidates = "empty" THEN Emit(<<"error">>, "plan") ELSE Emit(<<"candidates">>, "plan")

AfterSelect(candidates) ==
    IF candidates = "empty" THEN Emit(<<"error">>, "end") ELSE Emit(<<"candidates">>, "plan")

StreamOthers == <<lin_vars, par_vars, ret_vars, rew_vars, ext_vars, ing_vars>>

InitStream ==
    /\ qs_pc = "intent"
    /\ qs_events = <<>>
    /\ qs_candidates = "unset"
    /\ LinIdle
    /\ ParIdle
    /\ RetIdle
    /\ RewIdle
    /\ ExtIdle
    /\ IngIdle

\* step 1: parser.parse, event intent
StreamIntent ==
    /\ qs_pc = "intent"
    /\ \/ Emit(<<"intent">>, "candidates")
       \/ Raise(<<>>)
    /\ UNCHANGED <<qs_candidates, StreamOthers>>

\* step 2: selector.select, event candidates or the error of an empty list
StreamCandidates ==
    /\ qs_pc = "candidates"
    /\ \/ \E candidates \in {"empty", "found"} :
             /\ qs_candidates' = candidates
             /\ AfterSelect(candidates)
       \/ Raise(<<>>) /\ UNCHANGED qs_candidates
    /\ UNCHANGED StreamOthers

\* step 3: rewriter.rewrite, event plan
StreamPlan ==
    /\ qs_pc = "plan"
    /\ \/ Emit(<<"plan">>, "code")
       \/ Raise(<<>>)
    /\ UNCHANGED <<qs_candidates, StreamOthers>>

\* steps 4 and 5: the clean workbook is located and read, the code is
\* generated; events prompt (if not blank) and code
StreamCode ==
    /\ qs_pc = "code"
    /\ \/ \E prompt \in {<<>>, <<"prompt">>} : Emit(prompt \o <<"code">>, "execute")
       \/ Raise(<<>>)
    /\ UNCHANGED <<qs_candidates, StreamOthers>>

\* steps 6 to 8: pseudocode, execution, its logs and the result preview; a
\* failed execution yields an error event and the generator goes on
StreamExecute ==
    /\ qs_pc = "execute"
    /\ \E pseudocode \in {<<>>, <<"pseudocode">>} :
          \/ Raise(<<>>)
          \/ Raise(pseudocode \o <<"exec_log">>)
          \/ \E stdout \in {<<>>, <<"exec_log">>}, stderr \in {<<>>, <<"exec_log">>},
                outcome \in {"result_preview", "error"} :
                Emit(pseudocode \o <<"exec_log">> \o stdout \o stderr \o <<outcome>>, "lineage")
    /\ UNCHANGED <<qs_candidates, StreamOthers>>

\* step 9: the extractors and merge_lineage, event lineage
StreamLineage ==
    /\ qs_pc = "lineage"
    /\ \/ Emit(<<"lineage">>, "summary")
       \/ Raise(<<>>)
    /\ UNCHANGED <<qs_candidates, StreamOthers>>

\* step 10: summarizer.summarize, event summary
StreamSummary ==
    /\ qs_pc = "summary"
    /\ \/ Emit(<<"summary">>, "done")
       \/ Raise(<<>>)
    /\ UNCHANGED <<qs_candidates, StreamOthers>>

\* the last yield
StreamDone ==
    /\ qs_pc = "done"
    /\ Emit(<<"done">>, "end")
    /\ UNCHANGED <<qs_candidates, StreamOthers>>

NextStream ==
    \/ StreamIntent \/ StreamCandidates \/ StreamPlan \/ StreamCode
    \/ StreamExecute \/ StreamLineage \/ StreamSummary \/ StreamDone

SpecStream == InitStream /\ [][NextStream]_vars

StageNames == <<"intent", "candidates", "plan", "code", "lineage", "summary", "done">>

\* the stage events of a stream, in the order they were yielded
StageEventsOf(events) == SelectSeq(events, LAMBDA e : e \in Range(StageNames))

\* C26: the stage events of a stream are a prefix of intent, candidates,
\* plan, code, lineage, summary, done; done is the last event of the stream
\* when present; with no candidate the stream is intent followed by one error.
C26_StagesInOrder ==
    /\ StageEventsOf(qs_events) = SubSeq(StageNames, 1, Len(StageEventsOf(qs_events)))
    /\ \A i \in 1..Len(qs_events) : qs_events[i] = "done" => i = Len(qs_events)
    /\ qs_candidates = "empty" => qs_events = <<"intent", "error">> /\ qs_pc = "end"

C26_Witness ==
    /\ qs_pc = "end"
    /\ StageEventsOf(qs_events) = StageNames
    /\ "error" \in Range(qs_events)
    /\ "prompt" \in Range(qs_events)

(***************************************************************************)
(* Claim about CodeGenerator.generate, checked under SpecGenerate          *)
(***************************************************************************)
\* C29: the expected columns generate derives from a plan contain every
\* column the plan references: filter, groupby, agg, trend, growth, text_ops
\* and sort columns.
C29_ExpectedColumnsCoverPlan ==
    (gen_out.done /\ gen_out.raised = "none") =>
        (PlanColumns(plan) \ {None}) \subseteq gen_out.expected_cols

====
